---- MODULE Spec2Model ----
(***************************************************************************)
(* MikroDB storage engine: Table manager, write-ahead log, LRU tracker,    *)
(* checkpoint, table files, and the Node.js event loop that schedules      *)
(* their async functions.                                                  *)
(*                                                                         *)
(* Every async function of the engine is a frame kind; a frame's pc names  *)
(* the code between two awaits.  A task is a stack of frames.  The event   *)
(* loop runs the current task up to its next await, then the microtask     *)
(* queue, then setImmediate callbacks, then completed file I/O in the      *)
(* order it was issued.                                                    *)
(***************************************************************************)
EXTENDS Integers, Sequences, FiniteSets, TLC

Tables == {"A", "B"}
Keys == {"k1", "k2"}
\* A key with a space in it.  The WAL line is split at spaces, so the
\* parser takes the part before the space for the key and the rest for
\* the first word of the JSON value.
SpacedKeys == {"k 3"}
StoredKeys == {"k1", "k2", "k 3"}
FirstWord(k) == IF k \in SpacedKeys THEN "k" ELSE k
\* Values are plain JSON data: JSON.stringify / JSON.parse of the WAL and
\* encodeValue / decodeValue of the table file both return them unchanged.
Values == {"v1", "v2"}

\* JavaScript's undefined, NaN and null where a number is expected.
Undef == 0 - 1
NaN == 0 - 2
Null == 0 - 3
NoValue == "none"
NoTableName == "-"

\* ---------------------------------------------------------------- bounds
MaxTime == 3
MaxRestarts == 1
MaxTasks == 6
MaxRounds == 40

\* ------------------------------------------------- program constants
\* Scaled: the defaults are 20 tables, 100 entries, 10 KiB, 100 writes and
\* 2000 ms; one WAL entry counts as one unit of size, one tick as one
\* interval.
defaultCacheLimit == 2
maxWalBufferEntries == 2
maxWalBufferSize == 2
maxWalSizeBeforeCheckpoint == 2
maxWriteOpsBeforeFlush == 2
checkpointInterval == 1
\* An expiration deadline a caller may pass (0 means none).
Deadline == 2

\* ------------------------------------------------------------- records
\* In-memory item.  writeItem stores {value, v, t, x}; WAL replay and table
\* load store {value, version, timestamp, expiration}.  A field an object
\* does not have reads as undefined.
NoItem == [has |-> FALSE, value |-> NoValue, v |-> Undef, x |-> Undef,
           version |-> Undef, expiration |-> Undef]
MemItem(val, ver, exp) == [has |-> TRUE, value |-> val, v |-> ver, x |-> exp,
                           version |-> Undef, expiration |-> Undef]
RecItem(val, ver, exp) == [has |-> TRUE, value |-> val, v |-> Undef, x |-> Undef,
                           version |-> ver, expiration |-> exp]

NoTable == [res |-> FALSE, items |-> [k \in StoredKeys |-> NoItem]]
EmptyTable == [res |-> TRUE, items |-> [k \in StoredKeys |-> NoItem]]

NoFileRec == [has |-> FALSE, value |-> NoValue, version |-> 0, expiration |-> 0]
NoFile == [exists |-> FALSE, recs |-> [k \in StoredKeys |-> NoFileRec]]

\* The one element of a singleton set.  `The({e(x) : x \in {v}})` is e with
\* x bound to the value of v, computed once.
The(S) == CHOOSE x \in S : TRUE

\* value || 0 for a number-or-undefined operand.
OrZero(n) == IF n < 0 THEN 0 ELSE n

\* currentVersion + 1 in JavaScript arithmetic.
Increment(n) == IF n < 0 THEN NaN ELSE n + 1

\* Number(token.split(':')[1]) of a `v:` or `x:` token of a WAL line.
ParseNumber(n) == IF n < 0 THEN NaN ELSE n

\* Persistence.toBinaryBuffer: every entry of the Map, record.version || 0
\* and record.expiration || 0.
toBinaryBuffer(table) ==
  [exists |-> TRUE,
   recs |-> [k \in StoredKeys |->
      IF table.items[k].has
      THEN [has |-> TRUE, value |-> table.items[k].value,
            version |-> OrZero(table.items[k].version),
            expiration |-> OrZero(table.items[k].expiration)]
      ELSE NoFileRec]]

\* Persistence.readTableFromBinaryBuffer: drops records whose expiration is
\* set and <= now.
readTableFromBinaryBuffer(file, clock) ==
  [res |-> TRUE,
   items |-> [k \in StoredKeys |->
      IF file.recs[k].has
         /\ ~(file.recs[k].expiration # 0 /\ file.recs[k].expiration <= clock)
      THEN RecItem(file.recs[k].value, file.recs[k].version,
                   IF file.recs[k].expiration = 0 THEN Null
                   ELSE file.recs[k].expiration)
      ELSE NoItem]]

\* One WAL line: `<ts> <op> <table> v:<version> x:<expiration> <key> <json>`.
WalEntry(op, t, ver, exp, k, val) ==
  [op |-> op, t |-> t, ver |-> ver, exp |-> exp, k |-> k, val |-> val]

\* The value an operation returns.
Ret(b, val, ver, ks) ==
  [b |-> b, value |-> val, version |-> ver, keys |-> ks, ops |-> <<>>,
   err |-> FALSE]
RetVoid == Ret(TRUE, NoValue, Undef, {})
\* A rejected promise: the awaited function threw.
RetError == [Ret(FALSE, NoValue, Undef, {}) EXCEPT !.err = TRUE]
\* A result that says true whatever happened.
RetTrue(b) == Ret(TRUE, NoValue, Undef, {})
RetBool(b) == Ret(b, NoValue, Undef, {})
RetNotFound == Ret(FALSE, NoValue, Undef, {})

\* ------------------------------------------------------ engine state
\* The engine and its disk as one record m:
\*   data, activeTable, writeBuffer          Table
\*   walBuffer, cursor (lastProcessedEntryCount), walFile   WriteAheadLog
\*   tracker (tableAccessTimes, in Map insertion order), cacheLimit   Cache
\*   isCheckpointing, lastCheckpointTime     Checkpoint
\*   files                                   table files on disk
\*   tasks, cur, startQ, microQ, immQ, ioQ   the event loop
\*   events, result, hung                    what the caller observes
\*   markerFile, torn, temps                 the rest of the directory
\*   usesMarker, atomicWrites                which version of Checkpoint and
\*                                           of writeToDisk the build has
\*   faults, hold                            what the file system will do
\*   loaded                                  history of loadWAL(table)

TaskIds == 1..MaxTasks
MaxDepth == 14

Frame(fn) == [fn |-> fn, pc |-> 0, t |-> NoTableName, k |-> "k1",
              val |-> NoValue, ev |-> Null, exp |-> 0, ver |-> 0, op |-> "-",
              force |-> FALSE, n |-> 0, aux |-> 0, ok |-> TRUE,
              ops |-> <<>>, ts |-> <<>>, ws |-> <<>>, r |-> RetVoid]
FrameT(fn, t) == [Frame(fn) EXCEPT !.t = t]

NoTask == [stack |-> <<>>, parent |-> 0]

\* Cache.trackTableAccess: Map.set keeps the position of a key the Map
\* already has and appends a new one.
trackTableAccess(m0, t) ==
  The({IF \A i \in 1..Len(m.tracker) : m.tracker[i].t # t
       THEN [m EXCEPT !.tracker = Append(@, [t |-> t, at |-> m.now])]
       ELSE [m EXCEPT !.tracker =
               [i \in 1..Len(@) |-> IF @[i].t = t THEN [t |-> t, at |-> m.now]
                                                 ELSE @[i]]]
       : m \in {m0}})

\* Array.prototype.sort is stable: older access first, Map order on ties.
\* The rank of entry i is the number of entries sorted before it.
Rank(tr, i) ==
  Cardinality({j \in 1..Len(tr) :
     tr[j].at < tr[i].at \/ (tr[j].at = tr[i].at /\ j < i)})

\* The sequence of the entries of tr in sorted order.
Sorted(tr) ==
  [r \in 1..Len(tr) |-> tr[CHOOSE i \in 1..Len(tr) : Rank(tr, i) = r - 1]]

Min(a, b) == IF a < b THEN a ELSE b

ResidentCount(m) == Cardinality({t \in Tables : m.data[t].res})

findNewestFirst(m, count) ==
  IF count <= m.cacheLimit THEN <<>>
  ELSE [i \in 1..Min(count - m.cacheLimit, Len(m.tracker)) |->
          m.tracker[Len(m.tracker) + 1 - i].t]

\* Cache.findTablesForEviction(currentTableCount): the victims, in order.
findTablesForEviction(m, count) ==
  IF count <= m.cacheLimit THEN <<>>
  ELSE LET srt == Sorted(m.tracker)
           cnt == Min(count - m.cacheLimit, Len(srt))
       IN  [i \in 1..cnt |-> srt[i].t]

SeqRange(s) == {s[i] : i \in 1..Len(s)}

\* ... and the tracker without them.
untrack(m, victims) ==
  [m EXCEPT !.tracker = SelectSeq(@, LAMBDA e : e.t \notin SeqRange(victims))]

\* mikroEvent.emit(operation, {operation, table, key}): the events of a
\* call in the order of emission.
Event(name, t, k) == [name |-> name, t |-> t, k |-> k]
emit(m, name, t, k) == [m EXCEPT !.events = Append(@, Event(name, t, k))]
Names(evs) == {evs[i].name : i \in 1..Len(evs)}
\* flushWrites, the loop over the buffer snapshot: item.written for every
\* entry.
emitWritten(m, entries) ==
  [m EXCEPT !.events = @ \o [i \in 1..Len(entries) |->
                               Event("item.written", entries[i].t, entries[i].k)]]

\* Table.createTable
createTable(m, t) ==
  The({IF m1.data[t].res THEN m1 ELSE [m1 EXCEPT !.data[t] = EmptyTable]
       : m1 \in {trackTableAccess(m, t)}})

\* Table.deleteItem: data.get(t)?.delete(key), then the item.deleted event.
deleteItem(m0, t, k) ==
  The({emit(IF m.data[t].res /\ k \in StoredKeys
            THEN [m EXCEPT !.data[t].items[k] = NoItem] ELSE m,
            "item.deleted", t, k)
       : m \in {m0}})

\* Table.setItem
setItem(m, t, k, item) ==
  [createTable(trackTableAccess(m, t), t) EXCEPT !.data[t].items[k] = item]

\* Table.getItem, the test `item?.x !== 0 && Date.now() > item?.x`:
\* a comparison with undefined is false.
isExpired(item, clock) == item.x # 0 /\ item.x >= 0 /\ clock > item.x

\* Table.getItem, its return value: {value, version: item.v, expiration: item.x}
\* or undefined.
getItemValue(m, t, k) ==
  LET item == m.data[t].items[k]
  IN  IF ~m.data[t].res \/ ~item.has \/ isExpired(item, m.now)
      THEN [found |-> FALSE, value |-> NoValue, version |-> Undef, expiration |-> Undef]
      ELSE [found |-> TRUE, value |-> item.value, version |-> item.v, expiration |-> item.x]

\* Table.getItem, its effect: the access is tracked and an expired item is
\* deleted.
getItem(m, t, k) ==
  The({IF m1.data[t].res /\ m1.data[t].items[k].has
          /\ isExpired(m1.data[t].items[k], m1.now)
       THEN deleteItem(m1, t, k) ELSE m1
       : m1 \in {trackTableAccess(m, t)}})

\* Table.getItemVersion, its return value.
getItemVersion(m, t, k, expectedVersion) ==
  LET currentRecord == getItemValue(m, t, k)
      currentVersion == IF currentRecord.found THEN currentRecord.version ELSE 0
  IN  [success |-> ~(expectedVersion # Null /\ currentVersion # expectedVersion),
       currentVersion |-> currentVersion,
       newVersion |-> Increment(currentVersion),
       expiration |-> IF currentRecord.found THEN OrZero(currentRecord.expiration) ELSE 0]

\* Table.addToWriteBuffer
addToWriteBuffer(m, t, k) ==
  [getItem(m, t, k) EXCEPT !.writeBuffer = Append(@, [t |-> t, k |-> k])]

\* ------------------------------------------------------ WAL parsing
\* WriteAheadLog.loadWAL, the loop over the lines of the file from line i
\* (1-based; the code's index is i - 1).  pos is lastProcessedEntryCount of
\* the table; t = NoTableName is the call without a table (no cursor).
RECURSIVE parseWAL(_, _, _, _, _)
parseWAL(wal, i, t, pos, clock) ==
  IF i > Len(wal) THEN [ops |-> <<>>, pos |-> pos]
  ELSE LET e == wal[i]
           skip == \/ t # NoTableName /\ i - 1 < pos
                   \/ t # NoTableName /\ e.t # t
                   \/ e.exp # 0 /\ e.exp < clock
                   \* getJsonValueFromEntry: the words after the key are not
                   \* JSON, the value is undefined
                   \/ e.op = "W" /\ e.k \in SpacedKeys
           op == [op |-> e.op, t |-> e.t, k |-> FirstWord(e.k),
                  data |-> RecItem(e.val, ParseNumber(e.ver), e.exp)]
       IN  The({[ops |-> IF skip THEN rest.ops ELSE <<op>> \o rest.ops,
                 pos |-> rest.pos]
                : rest \in {parseWAL(wal, i + 1, t,
                                     IF skip \/ t = NoTableName THEN pos ELSE i,
                                     clock)}})

\* [...new Set(names)]: the distinct names in order of first occurrence.
RECURSIVE Distinct(_)
Distinct(s) ==
  IF s = <<>> THEN <<>>
  ELSE The({IF s[Len(s)] \in SeqRange(d) THEN d ELSE Append(d, s[Len(s)])
            : d \in {Distinct(SubSeq(s, 1, Len(s) - 1))}})

TableNames(entries) == Distinct([i \in 1..Len(entries) |-> entries[i].t])

\* --------------------------------------------------------- event loop
Top(m, id) == m.tasks[id].stack[Len(m.tasks[id].stack)]

SetTop(m, id, f) == [m EXCEPT !.tasks[id].stack = [@ EXCEPT ![Len(@)] = f]]

\* Continue in the same function without awaiting.
Goto(m, id, f, pc) == SetTop(m, id, [f EXCEPT !.pc = pc])

\* `await g(...)`: g runs synchronously up to its first await; the caller
\* continues at pc when g has returned.
Call(m0, id, f, pc, g) ==
  The({IF Len(m.tasks[id].stack) >= MaxDepth THEN [m EXCEPT !.hung = TRUE]
       ELSE [m EXCEPT !.tasks[id].stack =
               Append([@ EXCEPT ![Len(@)] = [f EXCEPT !.pc = pc]], g)]
       : m \in {m0}})

\* The promise of a task settles: a client call delivers its result, a
\* child of Promise.all / allSettled reports to its parent, which resumes
\* when the last child has settled.
Finish(m, id, ret) ==
  LET p == m.tasks[id].parent
      m1 == [m EXCEPT !.tasks[id] = NoTask, !.cur = 0]
  IN  IF p = 0
      THEN IF id = 1 \/ m.hold THEN [m1 EXCEPT !.result = ret] ELSE m1
      ELSE LET pf == Top(m, p)
               m2 == SetTop(m1, p, [pf EXCEPT !.n = @ - 1, !.ok = @ /\ ret.b,
                                              !.r.err = @ \/ ret.err])
           IN  IF pf.n = 1 THEN [m2 EXCEPT !.microQ = Append(@, p)] ELSE m2

\* `return ret` of an async function: the awaiting caller gets the value in
\* r and resumes in a later microtask.
Return(m0, id, ret) ==
  The({IF Len(m.tasks[id].stack) = 1 THEN Finish(m, id, ret)
       ELSE [m EXCEPT !.tasks[id].stack =
                        [i \in 1..(Len(@) - 1) |->
                           IF i = Len(@) - 1 THEN [@[i] EXCEPT !.r = ret] ELSE @[i]],
                      !.microQ = Append(@, id), !.cur = 0]
       : m \in {m0}})

\* A file operation of node:fs/promises: issued now, completed by the
\* event loop later; the task waits for count operations.
IO(id, kind, t, file, buf) ==
  [task |-> id, kind |-> kind, t |-> t, file |-> file, buf |-> buf,
   done |-> FALSE, fate |-> "ok"]

AwaitIO(m, id, f, pc, ios0) ==
  The({[SetTop(m, id, [f EXCEPT !.pc = pc, !.n = Len(ios)])
          EXCEPT !.ioQ = @ \o ios, !.cur = 0]
       : ios \in {ios0}})

FreeTasks(m) == {i \in TaskIds : i # 1 /\ m.tasks[i].stack = <<>>}

\* array.map(async ...): the child g starts at once and runs up to its
\* first await, then the parent continues its loop.
FreeTask(m) == CHOOSE i \in FreeTasks(m) : \A j \in FreeTasks(m) : i <= j

Spawn(m, id, f, g) ==
  IF FreeTasks(m) = {} THEN [m EXCEPT !.hung = TRUE]
  ELSE The({[SetTop(m, id, [f EXCEPT !.n = @ + 1])
               EXCEPT !.tasks[c] = [stack |-> <<g>>, parent |-> id],
                      !.startQ = <<id>> \o @, !.cur = c]
            : c \in {FreeTask(m)}})

\* The parent has started all children and awaits them.
Join(m, id, f, pc) ==
  IF f.n = 0 THEN [SetTop(m, id, [f EXCEPT !.pc = pc]) EXCEPT !.microQ = Append(@, id), !.cur = 0]
  ELSE [SetTop(m, id, [f EXCEPT !.pc = pc]) EXCEPT !.cur = 0]

\* setImmediate(callback)
setImmediate(m, what) == [m EXCEPT !.immQ = Append(@, what)]

\* ------------------------------------------------------ Table (async)
\* Each operator takes the engine m, the running task id and its top frame
\* f, and gives the engine after the code from f.pc up to the next await.

setActiveTable(m, id, f) ==
  CASE f.pc = 0 ->
         IF m.activeTable = f.t THEN Return(m, id, RetVoid)
         ELSE The({IF ~m1.data[f.t].res
                   THEN Call(m1, id, f, 1, FrameT("loadTable", f.t))
                   ELSE Goto(m1, id, f, 1)
                   : m1 \in {trackTableAccess(m, f.t)}})
    [] f.pc = 1 -> Call(m, id, f, 2, FrameT("applyWALEntries", f.t))
    [] f.pc = 2 -> Call(m, id, f, 3, Frame("evictTablesIfNeeded"))
    [] OTHER -> Return([m EXCEPT !.activeTable = f.t], id, RetVoid)

loadTable(m, id, f) ==
  CASE f.pc = 0 ->
         The({IF m1.data[f.t].res THEN Return(m1, id, RetVoid)
              ELSE IF ~m1.files[f.t].exists
                   THEN Return(createTable(m1, f.t), id, RetVoid)
                   ELSE AwaitIO(m1, id, f, 1, <<IO(id, "readFile", f.t, NoFile, <<>>)>>)
              : m1 \in {trackTableAccess(m, f.t)}})
    [] OTHER ->
         \* a file shorter than its header is replaced by an empty table
         IF m.torn[f.t] = "cutAll" THEN Return(createTable(m, f.t), id, RetVoid)
         \* other bytes where the header should be, among them those of an
         \* encrypted file whose decryption failed and was logged:
         \* readTableFromBinaryBuffer throws 'Invalid table file format'
         ELSE IF m.torn[f.t] \in {"badMagic", "undecryptable"}
         THEN Return(m, id, RetError)
         ELSE The({Return(IF ResidentCount(m1) > m1.cacheLimit
                          THEN setImmediate(m1, "evictTablesIfNeeded") ELSE m1,
                          id, RetVoid)
                   : m1 \in {[m EXCEPT !.data[f.t] =
                                 readTableFromBinaryBuffer(m.files[f.t], m.now)]}})

\* A replay that drops the operations it was given.
applyNothing(m, ops, table) == m

\* applyWALEntries, the inner loop over the operations of one table.
RECURSIVE applyOps(_, _, _)
applyOps(m, ops, table) ==
  IF ops = <<>> THEN m
  ELSE LET op == Head(ops)
       IN  applyOps(IF op.t # table THEN m
                    ELSE IF op.op = "W" THEN setItem(m, table, op.k, op.data)
                    ELSE deleteItem(m, table, op.k),
                    Tail(ops), table)

applyWALEntries(m, id, f) ==
  CASE f.pc = 0 -> Call(m, id, f, 1, FrameT("loadWAL", f.t))
    [] f.pc = 1 ->
         IF f.r.ops = <<>> THEN Return(m, id, RetVoid)
         ELSE Goto(m, id, [f EXCEPT !.ops = f.r.ops,
                                    !.ts = IF f.t # NoTableName THEN <<f.t>>
                                           ELSE TableNames(f.r.ops)], 2)
    [] f.pc = 2 ->
         IF f.ts = <<>> THEN Return(m, id, RetVoid)
         ELSE IF f.t # NoTableName
              THEN The({IF ~m1.data[Head(f.ts)].res
                        THEN Call(m1, id, f, 3, FrameT("loadTable", Head(f.ts)))
                        ELSE Goto(createTable(m1, Head(f.ts)), id, f, 3)
                        : m1 \in {trackTableAccess(m, Head(f.ts))}})
              ELSE Goto(createTable(m, Head(f.ts)), id, f, 3)
    [] OTHER ->
         Goto(applyOps(m, f.ops, Head(f.ts)), id, [f EXCEPT !.ts = Tail(@)], 2)

evictNothing(m, id, f) == Return(m, id, RetVoid)

evictTablesIfNeeded(m, id, f) ==
  CASE f.pc = 0 ->
         The({Goto(untrack(m, victims), id, [f EXCEPT !.ts = victims], 1)
              : victims \in {findTablesForEviction(m, ResidentCount(m))}})
    [] f.pc = 1 ->
         IF f.ts = <<>> THEN Return(m, id, RetVoid)
         ELSE Call(m, id, f, 2, FrameT("flushTableToDisk", Head(f.ts)))
    [] OTHER ->
         Goto([m EXCEPT !.data[Head(f.ts)] = NoTable], id,
              [f EXCEPT !.ts = Tail(@)], 1)

\* The keys of the Map of table t (none when the table is not resident).
RawKeys(m, t) == {k \in StoredKeys : m.data[t].res /\ m.data[t].items[k].has}

\* flushTableToDisk, the loop `for (key of tableData) addToWriteBuffer`.
RECURSIVE bufferKeys(_, _, _)
bufferKeys(m0, t, ks) ==
  IF ks = {} THEN m0
  ELSE The({bufferKeys(IF m.data[t].items[k].has THEN addToWriteBuffer(m, t, k) ELSE m,
                       t, ks \ {k})
            : <<m, k>> \in {<<m0, CHOOSE x \in ks : \A y \in ks : x = "k1" \/ y # "k1">>}})

flushTableToDisk(m, id, f) ==
  CASE f.pc = 0 -> Call(m, id, f, 1, FrameT("setActiveTable", f.t))
    [] f.pc = 1 ->
         The({IF ~m1.data[f.t].res \/ RawKeys(m1, f.t) = {} THEN Return(m1, id, RetVoid)
              ELSE Call(bufferKeys(m1, f.t, RawKeys(m1, f.t)), id, f, 2,
                        Frame("flushWrites"))
              : m1 \in {trackTableAccess(m, f.t)}})
    [] OTHER -> Return(m, id, RetVoid)

\* flushWrites, `this.getTable(tableName)` for each table of the snapshot.
RECURSIVE trackAll(_, _)
trackAll(m, ts) ==
  IF ts = <<>> THEN m ELSE trackAll(trackTableAccess(m, Head(ts)), Tail(ts))

flushWrites(m, id, f) ==
  CASE f.pc = 0 ->
         IF m.writeBuffer = <<>> THEN Return(m, id, RetVoid)
         ELSE The({AwaitIO(emitWritten(trackAll(m, ts), m.writeBuffer), id,
                           [f EXCEPT !.aux = Len(m.writeBuffer)], 1,
                           [i \in 1..Len(ts) |->
                              IO(id, "writeFile", ts[i],
                                 toBinaryBuffer(IF m.data[ts[i]].res THEN m.data[ts[i]]
                                                ELSE EmptyTable), <<>>)])
                   : ts \in {TableNames(m.writeBuffer)}})
    [] OTHER ->
         \* a failed writeToDisk rejects Promise.all: the catch logs it and
         \* the buffer keeps its entries
         IF ~f.ok THEN Return(m, id, RetVoid)
         ELSE Return([m EXCEPT !.writeBuffer = SubSeq(@, f.aux + 1, Len(@))], id, RetVoid)

flush(m, id, f) ==
  CASE f.pc = 0 -> Call(m, id, f, 1, Frame("flushWAL"))
    [] f.pc = 1 -> Call(m, id, f, 2, Frame("flushWrites"))
    [] OTHER -> Return(m, id, RetVoid)

\* ------------------------------------------------------- WriteAheadLog
\* History for overlapping calls: the table and the number of every entry
\* that loadWAL(table) has returned, in the order returned.
Numbered(ops) == [i \in 1..Len(ops) |-> [t |-> ops[i].t, n |-> ops[i].data.version]]

loadWAL(m, id, f) ==
  CASE f.pc = 0 ->
         IF Len(m.walFile) = 0 THEN Return(m, id, RetVoid)
         ELSE AwaitIO(m, id, f, 1, <<IO(id, "readFile", NoTableName, NoFile, <<>>)>>)
    [] OTHER ->
         The({Return(IF f.t = NoTableName THEN m
                     ELSE [m EXCEPT !.cursor[f.t] = p.pos,
                                    !.loaded = IF m.hold THEN @ \o Numbered(p.ops) ELSE @],
                     id, [RetVoid EXCEPT !.ops = p.ops])
              : p \in {parseWAL(f.ops, 1, f.t,
                                IF f.t = NoTableName THEN 0 ELSE m.cursor[f.t], m.now)}})

\* A flushWAL that leaves the buffer as it is.
flushNoWAL(m, id, f) == Return(m, id, RetVoid)

flushWAL(m, id, f) ==
  CASE f.pc = 0 ->
         IF m.walBuffer = <<>> THEN Return(m, id, RetVoid)
         ELSE AwaitIO([m EXCEPT !.walBuffer = <<>>], id, [f EXCEPT !.ops = m.walBuffer], 1,
                      <<IO(id, "appendFile", NoTableName, NoFile, m.walBuffer)>>)
    [] OTHER ->
         \* catch: walBuffer = [...bufferToFlush, ...walBuffer]; throw
         IF ~f.ok THEN Return([m EXCEPT !.walBuffer = f.ops \o @], id, RetError)
         ELSE Return(IF Len(m.walFile) > maxWalSizeBeforeCheckpoint
                     THEN setImmediate(m, "checkpoint") ELSE m, id, RetVoid)

appendToWAL(m, id, f) ==
  CASE f.pc = 0 ->
         The({IF Len(m1.walBuffer) >= maxWalBufferEntries
              THEN Call(m1, id, f, 1, Frame("flushWAL"))
              ELSE Goto(m1, id, f, 1)
              : m1 \in {[m EXCEPT !.walBuffer =
                            Append(@, WalEntry(f.op, f.t, f.ver, f.exp, f.k, f.val))]}})
    [] f.pc = 1 ->
         IF Len(m.walBuffer) >= maxWalBufferSize
         THEN Call(m, id, f, 2, Frame("flushWAL"))
         ELSE Goto(m, id, f, 2)
    [] OTHER ->
         Return(IF Len(m.walFile) > maxWalSizeBeforeCheckpoint
                THEN setImmediate(m, "checkpoint") ELSE m, id, RetVoid)

\* ----------------------------------------------- Table, client calls
writeItem(m, id, f) ==
  CASE f.pc = 0 -> Call(m, id, f, 1, FrameT("setActiveTable", f.t))
    [] f.pc = 1 ->
         The({IF ~iv.success THEN Return(getItem(m, f.t, f.k), id, RetBool(FALSE))
              ELSE Call(getItem(m, f.t, f.k), id, [f EXCEPT !.ver = iv.newVersion], 2,
                        [f EXCEPT !.fn = "appendToWAL", !.pc = 0, !.op = "W",
                                  !.ver = iv.newVersion])
              : iv \in {getItemVersion(m, f.t, f.k, f.ev)}})
    [] OTHER ->
         Return(addToWriteBuffer(setItem(m, f.t, f.k, MemItem(f.val, f.ver, f.exp)),
                                 f.t, f.k),
                id, RetBool(TRUE))

WriteOp(t, k, val, ev, exp) == [t |-> t, k |-> k, val |-> val, ev |-> ev, exp |-> exp]

\* A write that starts all operations of the call at once.
writeUnsliced(m, id, f) ==
  CASE f.pc = 0 ->
         IF f.ws # <<>>
         THEN LET w == Head(f.ws)
              IN  Spawn(m, id, [f EXCEPT !.ws = Tail(@), !.exp = @ + 1],
                        [Frame("writeItem") EXCEPT !.t = w.t, !.k = w.k, !.val = w.val,
                                                   !.ev = w.ev, !.exp = w.exp,
                                                   !.aux = f.exp + 1])
         ELSE Join(m, id, f, 1)
    [] f.pc = 1 ->
         IF ~f.ok THEN Return(m, id, RetBool(FALSE))
         ELSE IF Len(m.writeBuffer) >= maxWriteOpsBeforeFlush
              THEN Call(m, id, f, 3, Frame("flushWrites"))
              ELSE Goto(m, id, f, 3)
    [] f.pc = 3 -> Call(m, id, f, 4, Frame("flush"))
    [] OTHER -> Return(m, id, RetBool(TRUE))

\* options.concurrencyLimit, kept in f.ver; 0 stands for an option that
\* was not given.
defaultConcurrencyLimit == 10
ConcurrencyLimit(f) == IF f.ver = 0 THEN defaultConcurrencyLimit ELSE f.ver

\* Table.write: the operations left are in f.ws, f.exp of them have been
\* started, f.aux of these in the slice under way; a writeItem carries the
\* position of its operation in the call (aux).
write(m, id, f) ==
  CASE f.pc = 0 ->
         IF f.ws # <<>> /\ f.aux < ConcurrencyLimit(f)
         THEN LET w == Head(f.ws)
              IN  Spawn(m, id, [f EXCEPT !.ws = Tail(@), !.exp = @ + 1, !.aux = @ + 1],
                        [Frame("writeItem") EXCEPT !.t = w.t, !.k = w.k, !.val = w.val,
                                                   !.ev = w.ev, !.exp = w.exp,
                                                   !.aux = f.exp + 1])
         ELSE Join(m, id, f, 1)
    [] f.pc = 1 ->
         IF ~f.ok THEN Return(m, id, RetBool(FALSE))
         ELSE IF Len(m.writeBuffer) >= maxWriteOpsBeforeFlush
              THEN Call(m, id, f, 2, Frame("flushWrites"))
              ELSE Goto(m, id, f, 2)
    [] f.pc = 2 ->
         IF f.ws # <<>> THEN Goto(m, id, [f EXCEPT !.aux = 0], 0)
         ELSE Goto(m, id, f, 3)
    [] f.pc = 3 -> Call(m, id, f, 4, Frame("flush"))
    [] OTHER -> Return(m, id, RetBool(TRUE))

\* MikroDB.delete: `operation?.expectedVersion || null`.
orNull(expectedVersion) == IF expectedVersion = 0 THEN Null ELSE expectedVersion

delete(m, id, f) ==
  CASE f.pc = 0 -> Call(m, id, f, 1, FrameT("setActiveTable", f.t))
    [] f.pc = 1 ->
         The({IF ~m1.data[f.t].res \/ ~m1.data[f.t].items[f.k].has
              THEN Return(m1, id, RetBool(FALSE))
              ELSE IF ~iv.success THEN Return(getItem(m1, f.t, f.k), id, RetBool(FALSE))
              ELSE Call(getItem(m1, f.t, f.k), id, f, 2,
                        [f EXCEPT !.fn = "appendToWAL", !.pc = 0, !.op = "D",
                                  !.val = NoValue, !.ver = iv.currentVersion,
                                  !.exp = iv.expiration])
              : <<m1, iv>> \in {<<trackTableAccess(m, f.t),
                                  getItemVersion(m, f.t, f.k, f.ev)>>}})
    [] OTHER -> Return(deleteItem(m, f.t, f.k), id, RetBool(TRUE))

get(m, id, f) ==
  CASE f.pc = 0 -> Call(m, id, f, 1, FrameT("setActiveTable", f.t))
    [] OTHER ->
         IF f.op = "key"
         THEN The({Return(getItem(m, f.t, f.k), id,
                          Ret(item.found, item.value, Undef, {}))
                   : item \in {getItemValue(m, f.t, f.k)}})
         ELSE Return(trackTableAccess(m, f.t), id,
                     Ret(TRUE, NoValue, Undef, RawKeys(m, f.t)))

\* Cache.findExpiredItems, the test `item.x && item.x < currentTimestamp`:
\* an x that is undefined, null, NaN or 0 is falsy.
findExpiredItems(m, t) ==
  {k \in StoredKeys : /\ m.data[t].res /\ m.data[t].items[k].has
                      /\ m.data[t].items[k].x > 0 /\ m.data[t].items[k].x < m.now}

\* The elements of a set of keys, "k1" first.
RECURSIVE KeySeq(_)
KeySeq(ks) ==
  IF ks = {} THEN <<>>
  ELSE The({<<k>> \o KeySeq(ks \ {k})
            : k \in {CHOOSE x \in ks : \A y \in ks : x = "k1" \/ y # "k1"}})

\* Table.cleanupExpiredItems: for each table in memory (f.ts) the expired
\* items are listed once (f.ws), then each is logged as a delete, removed
\* from the Map and announced.
cleanupExpiredItems(m, id, f) ==
  CASE f.pc = 0 ->
         Goto(m, id, [f EXCEPT !.ts = SelectSeq(<<"A", "B">>, LAMBDA t : m.data[t].res)], 1)
    [] f.pc = 1 ->
         IF f.ts = <<>> THEN Return(m, id, RetVoid)
         ELSE Goto(m, id, [f EXCEPT !.ws = KeySeq(findExpiredItems(m, Head(f.ts)))], 2)
    [] f.pc = 2 ->
         IF f.ws = <<>> THEN Goto(m, id, [f EXCEPT !.ts = Tail(@)], 1)
         ELSE The({Call(m, id, f, 3,
                        [FrameT("appendToWAL", Head(f.ts))
                           EXCEPT !.op = "D", !.k = Head(f.ws), !.val = NoValue,
                                  !.ver = item.v, !.exp = item.x])
                   : item \in {m.data[Head(f.ts)].items[Head(f.ws)]}})
    [] OTHER ->
         Goto(emit(IF m.data[Head(f.ts)].res
                   THEN [m EXCEPT !.data[Head(f.ts)].items[Head(f.ws)] = NoItem]
                   ELSE m, "item.expired", Head(f.ts), Head(f.ws)),
              id, [f EXCEPT !.ws = Tail(@)], 2)

\* A deleteTable that removes the file of the table as well.
deleteTableAndFile(m, id, f) ==
  Return(emit([m EXCEPT !.data[f.t] = NoTable, !.files[f.t] = NoFile], "table.deleted", f.t, ""),
         id, RetVoid)

\* Table.deleteTable: the access is tracked, the Map entry deleted and
\* table.deleted emitted; activeTable stays as it is.
deleteTable(m, id, f) ==
  Return(emit([trackTableAccess(m, f.t) EXCEPT !.data[f.t] = NoTable], "table.deleted", f.t, ""),
         id, RetVoid)

\* Table.getTableSize: this.data.get(tableName)?.size, undefined when the
\* table is not in memory.
getTableSize(m, id, f) ==
  CASE f.pc = 0 -> Call(m, id, f, 1, FrameT("setActiveTable", f.t))
    [] OTHER ->
         Return(trackTableAccess(m, f.t), id,
                Ret(m.data[f.t].res, NoValue,
                    IF m.data[f.t].res THEN Cardinality(RawKeys(m, f.t)) ELSE Undef, {}))

\* ---------------------------------------------------------- Checkpoint
\* Checkpoint.checkpoint.  The build has one of two versions of the class:
\* the one that keeps the marker file `<wal>.checkpoint` while it runs
\* (usesMarker) or the one that does not.
checkpoint(m, id, f) ==
  CASE f.pc = 0 ->
         IF m.isCheckpointing THEN Return(m, id, RetVoid)
         ELSE IF ~f.force /\ m.now - m.lastCheckpointTime < checkpointInterval
              THEN Return(m, id, RetVoid)
              ELSE IF m.usesMarker /\ m.markerFile
                   \* 'another process is checkpointing'
                   THEN Return(m, id, RetVoid)
                   ELSE Call([m EXCEPT !.isCheckpointing = TRUE], id,
                             [f EXCEPT !.aux = m.now], 1, Frame("flushWAL"))
    [] f.pc = 1 ->
         IF m.usesMarker
         THEN AwaitIO(m, id, f, 6, <<IO(id, "writeMarker", NoTableName, NoFile, <<>>)>>)
         ELSE AwaitIO(m, id, f, 2, <<IO(id, "readFile", NoTableName, NoFile, <<>>)>>)
    [] f.pc = 6 -> AwaitIO(m, id, f, 2, <<IO(id, "readFile", NoTableName, NoFile, <<>>)>>)
    [] f.pc = 2 -> Goto(m, id, [f EXCEPT !.ts = TableNames(f.ops)], 3)
    [] f.pc = 3 ->
         IF f.ts # <<>>
         THEN Spawn(m, id, [f EXCEPT !.ts = Tail(@)], FrameT("flushTableToDisk", Head(f.ts)))
         ELSE Join(m, id, f, 4)
    [] f.pc = 4 -> AwaitIO(m, id, f, 5, <<IO(id, "truncate", NoTableName, NoFile, <<>>)>>)
    \* catch: CheckpointError; finally: the flag is reset
    [] f.pc = 5 /\ ~f.ok -> Return([m EXCEPT !.isCheckpointing = FALSE], id, RetError)
    [] f.pc = 5 /\ f.ok /\ m.usesMarker ->
         AwaitIO(m, id, f, 7, <<IO(id, "unlinkMarker", NoTableName, NoFile, <<>>)>>)
    [] OTHER ->
         Return([m EXCEPT !.cursor = [t \in Tables |-> 0],
                          !.lastCheckpointTime = f.aux,
                          !.isCheckpointing = FALSE], id, RetVoid)

\* ------------------------------------------------------------- MikroDB
\* The intervals of an engine: walTimer is set, `armed` checkpoint
\* intervals have been set and not cleared, and checkpointTimer holds the
\* newest of them (handle) or null.
Timers(wal, armed, handle) == [wal |-> wal, armed |-> armed, handle |-> handle]
\* `this.checkpointTimer = setInterval(...)`: one more interval, and the
\* field forgets the one it held.
setInterval(m) == [m EXCEPT !.timers = Timers(@.wal, @.armed + 1, TRUE)]
\* Checkpoint.stop and WriteAheadLog.stop: each clears the interval its
\* field holds.
stop(m) ==
  [m EXCEPT !.timers = Timers(FALSE, IF @.handle THEN @.armed - 1 ELSE @.armed, FALSE),
            !.isCheckpointing = FALSE]

\* Checkpoint.start: recovery when the marker file exists, then the timer.
checkpointStart(m, id, f) ==
  CASE f.pc = 0 ->
         IF m.markerFile
         THEN AwaitIO(m, id, f, 1, <<IO(id, "readFile", NoTableName, NoFile, <<>>)>>)
         ELSE Return(setInterval(m), id, RetVoid)
    [] f.pc = 1 -> Call(m, id, f, 2, [Frame("checkpoint") EXCEPT !.force = TRUE])
    [] OTHER -> Return(setInterval(m), id, RetVoid)

\* MikroDB.start: table.start(), then checkpoint.start() once more.
start(m, id, f) ==
  CASE f.pc = 0 -> Call(m, id, f, 1, Frame("applyWALEntries"))
    [] f.pc = 1 -> Call(m, id, f, 2, Frame("checkpointStart"))
    [] OTHER -> Return(m, id, RetVoid)

close(m, id, f) ==
  CASE f.pc = 0 ->
         Call(stop(m), id, f, 1, Frame("flush"))
    [] OTHER -> Return(m, id, RetVoid)

\* ---------------------------------------------------- event loop, run
Exec(m, id) ==
  \* f is the top frame of the task.  An error thrown by an awaited call
  \* leaves every function; Checkpoint.checkpoint resets its flag in
  \* `finally` on the way, MikroDB.close catches it.
  The({CASE f.r.err /\ f.fn = "checkpoint" ->
              Return([m EXCEPT !.isCheckpointing = FALSE], id, RetError)
        [] f.r.err /\ f.fn # "close" -> Return(m, id, RetError)
        [] f.fn = "setActiveTable" -> setActiveTable(m, id, f)
        [] f.fn = "loadTable" -> loadTable(m, id, f)
        [] f.fn = "applyWALEntries" -> applyWALEntries(m, id, f)
        [] f.fn = "evictTablesIfNeeded" -> evictTablesIfNeeded(m, id, f)
        [] f.fn = "flushTableToDisk" -> flushTableToDisk(m, id, f)
        [] f.fn = "flushWrites" -> flushWrites(m, id, f)
        [] f.fn = "flush" -> flush(m, id, f)
        [] f.fn = "loadWAL" -> loadWAL(m, id, f)
        [] f.fn = "flushWAL" -> flushWAL(m, id, f)
        [] f.fn = "appendToWAL" -> appendToWAL(m, id, f)
        [] f.fn = "writeItem" -> writeItem(m, id, f)
        [] f.fn = "write" -> write(m, id, f)
        [] f.fn = "delete" -> delete(m, id, f)
        [] f.fn = "get" -> get(m, id, f)
        [] f.fn = "checkpoint" -> checkpoint(m, id, f)
        [] f.fn = "start" -> start(m, id, f)
        [] f.fn = "checkpointStart" -> checkpointStart(m, id, f)
        [] f.fn = "getTableSize" -> getTableSize(m, id, f)
        [] f.fn = "deleteTable" -> deleteTable(m, id, f)
        [] f.fn = "cleanupExpiredItems" -> cleanupExpiredItems(m, id, f)
        [] OTHER -> close(m, id, f)
       : f \in {Top(m, id)}})

\* A setImmediate callback starts as a task of its own.
RunImmediate(m) ==
  IF FreeTasks(m) = {} THEN [m EXCEPT !.hung = TRUE]
  ELSE LET g == IF Head(m.immQ) = "checkpoint"
                THEN [Frame("checkpoint") EXCEPT !.force = TRUE]
                ELSE Frame("evictTablesIfNeeded")
       IN  The({[m EXCEPT !.immQ = Tail(@),
                          !.tasks[c] = [stack |-> <<g>>, parent |-> 0], !.cur = c]
                : c \in {FreeTask(m)}})

\* The fault plan: what the file system does to the coming writes, in
\* order.  "failAppend" fails the next append to the WAL file with nothing
\* written; "failWrite" fails the next write of a table file with nothing
\* written, "cutAll" and "cutHeader" fail it after 0 bytes and after the
\* 8 byte header; "ok" lets one write of either kind pass.  "failTruncate"
\* fails the next writeFile(walFile, '') before the file is opened.
Meets(m, io) ==
  /\ m.faults # <<>>
  /\ \/ io.kind = "appendFile" /\ Head(m.faults) \in {"ok", "failAppend"}
     \/ io.kind \in {"writeFile", "rename"}
          /\ Head(m.faults) \in {"ok", "failWrite", "cutAll", "cutHeader"}
     \/ io.kind = "truncate" /\ Head(m.faults) = "failTruncate"

Fate(m, io) == IF Meets(m, io) THEN Head(m.faults) ELSE "ok"

\* The file system carries out outstanding operation i: the disk changes
\* and a read of the WAL file gets the content of that moment.
\* writeToDisk is one writeFile on the table file, or (atomicWrites) a
\* writeFile on a temp file and a rename; a failed step of the latter
\* unlinks the temp file.
PerformIO(m, i) ==
  LET io == m.ioQ[i]
      fate == Fate(m, io)
      m1 == CASE io.kind = "writeFile" /\ m.atomicWrites ->
                   IF fate = "ok" THEN [m EXCEPT !.temps = @ + 1] ELSE m
              [] io.kind = "writeFile" ->
                   IF fate = "ok"
                   THEN [m EXCEPT !.files[io.t] = io.file, !.torn[io.t] = "no"]
                   ELSE IF fate = "failWrite" THEN m
                   ELSE [m EXCEPT !.files[io.t] = [NoFile EXCEPT !.exists = TRUE],
                                  !.torn[io.t] = fate]
              [] io.kind = "rename" ->
                   IF fate = "ok"
                   THEN [m EXCEPT !.files[io.t] = io.file, !.torn[io.t] = "no",
                                  !.temps = @ - 1]
                   ELSE [m EXCEPT !.temps = @ - 1]
              [] io.kind = "appendFile" ->
                   IF fate = "ok" THEN [m EXCEPT !.walFile = @ \o io.buf] ELSE m
              [] io.kind = "truncate" ->
                   IF fate = "ok" THEN [m EXCEPT !.walFile = <<>>] ELSE m
              [] io.kind = "writeMarker" -> [m EXCEPT !.markerFile = TRUE]
              [] io.kind = "unlinkMarker" -> [m EXCEPT !.markerFile = FALSE]
              [] OTHER -> m
  IN  [m1 EXCEPT !.ioQ[i] = [io EXCEPT !.done = TRUE, !.fate = fate,
                                       !.buf = IF io.kind = "readFile" /\ io.t = NoTableName
                                               THEN m.walFile ELSE @],
                 !.faults = IF Meets(m, io) THEN Tail(@) ELSE @]

\* The promise of operation i, carried out before, settles: its task gets
\* the outcome and resumes when it waits for no other operation.
ResolveIO(m, i) ==
  LET io == m.ioQ[i]
      staged == io.kind = "writeFile" /\ m.atomicWrites /\ io.fate = "ok"
      rest == [j \in 1..(Len(m.ioQ) - 1) |-> IF j < i THEN m.ioQ[j] ELSE m.ioQ[j + 1]]
      f == Top(m, io.task)
      m2 == [m EXCEPT !.ioQ = IF staged
                               THEN rest \o <<[io EXCEPT !.kind = "rename", !.done = FALSE]>>
                               ELSE rest]
      m3 == IF staged THEN m2
            ELSE SetTop(m2, io.task,
                        [f EXCEPT !.n = @ - 1, !.ok = @ /\ io.fate = "ok",
                                  !.ops = IF io.kind = "readFile" /\ io.t = NoTableName
                                          THEN io.buf ELSE @])
  IN  IF ~staged /\ f.n = 1 THEN [m3 EXCEPT !.cur = io.task] ELSE m3

\* The oldest outstanding file operation completes.
CompleteIO(m) == The({ResolveIO(x, 1) : x \in {PerformIO(m, 1)}})

\* Nothing is left to run; with hold, file operations stay outstanding
\* until the file system completes them.
Quiet(m) ==
  /\ m.cur = 0 /\ m.startQ = <<>> /\ m.microQ = <<>>
  /\ m.immQ = <<>> /\ (m.hold \/ m.ioQ = <<>>)

\* One turn: the running task up to its next await, else the parent of a
\* just started child, else the next microtask, else the next setImmediate
\* callback, else the next I/O completion.
Step(m) ==
  IF m.hung \/ Quiet(m) THEN m
  ELSE IF m.cur # 0 THEN Exec(m, m.cur)
  ELSE IF m.startQ # <<>> THEN [m EXCEPT !.cur = Head(m.startQ), !.startQ = Tail(@)]
  ELSE IF m.microQ # <<>> THEN [m EXCEPT !.cur = Head(m.microQ), !.microQ = Tail(@)]
  ELSE IF m.immQ # <<>> THEN RunImmediate(m)
  ELSE CompleteIO(m)

Step4(m) ==
  The({Step(d) : d \in {Step(c) : c \in {Step(b) : b \in {Step(m)}}}})
Step16(m) ==
  The({Step4(d) : d \in {Step4(c) : c \in {Step4(b) : b \in {Step4(m)}}}})

\* Turns until nothing is left to run, at most 16 * rounds of them.
RECURSIVE Run(_, _)
Run(m, rounds) ==
  IF m.hung \/ Quiet(m) THEN m
  ELSE IF rounds = 0 THEN [m EXCEPT !.hung = TRUE]
  ELSE The({Run(x, rounds - 1) : x \in {Step16(m)}})

\* A call that never settles leaves the engine unusable; what it did to
\* memory up to then is of no interest.
Settle(m) ==
  The({IF m1.hung
       THEN [m1 EXCEPT !.tasks = [i \in TaskIds |-> NoTask], !.cur = 0,
                       !.startQ = <<>>, !.microQ = <<>>, !.immQ = <<>>, !.ioQ = <<>>,
                       !.result = RetVoid]
       ELSE m1
       : m1 \in {Run(x, MaxRounds) : x \in {m}}})

\* The client calls an operation: task 1 runs frame g.
Invoke(m, g) ==
  Settle([m EXCEPT !.tasks[1] = [stack |-> <<g>>, parent |-> 0], !.cur = 1,
                   !.events = <<>>, !.result = RetVoid])

\* A timer callback fires.
Fire(m, g) ==
  Settle([m EXCEPT !.tasks[FreeTask(m)] = [stack |-> <<g>>, parent |-> 0],
                   !.cur = FreeTask(m), !.events = <<>>, !.result = RetVoid])

\* ------------------------------------------------------------ variables
VARIABLES data, activeTable, writeBuffer, walBuffer, cursor, tracker,
          cacheLimit, isCheckpointing, lastCheckpointTime, timers,
          walFile, files, now, tasks, cur, startQ, microQ, immQ, ioQ,
          events, result, hung,
          faults, hold, markerFile, usesMarker, atomicWrites, torn, temps,
          loaded,
          phase, epoch, restarts, budget, lastOp, expect

engineVars == <<data, activeTable, writeBuffer, walBuffer, cursor, tracker,
                cacheLimit, isCheckpointing, lastCheckpointTime, timers,
                walFile, files, now, tasks, cur, startQ, microQ, immQ, ioQ,
                events, result, hung,
                faults, hold, markerFile, usesMarker, atomicWrites, torn, temps,
                loaded>>
vars == <<engineVars, phase, epoch, restarts, budget, lastOp, expect>>

Machine ==
  [data |-> data, activeTable |-> activeTable, writeBuffer |-> writeBuffer,
   walBuffer |-> walBuffer, cursor |-> cursor, tracker |-> tracker,
   cacheLimit |-> cacheLimit, isCheckpointing |-> isCheckpointing,
   lastCheckpointTime |-> lastCheckpointTime, timers |-> timers,
   walFile |-> walFile, files |-> files, now |-> now, tasks |-> tasks,
   cur |-> cur, startQ |-> startQ, microQ |-> microQ, immQ |-> immQ,
   ioQ |-> ioQ, events |-> events, result |-> result, hung |-> hung,
   faults |-> faults, hold |-> hold, markerFile |-> markerFile,
   usesMarker |-> usesMarker, atomicWrites |-> atomicWrites, torn |-> torn,
   temps |-> temps, loaded |-> loaded]

Install(m) ==
  /\ data' = m.data /\ activeTable' = m.activeTable
  /\ writeBuffer' = m.writeBuffer /\ walBuffer' = m.walBuffer
  /\ cursor' = m.cursor /\ tracker' = m.tracker /\ cacheLimit' = m.cacheLimit
  /\ isCheckpointing' = m.isCheckpointing
  /\ lastCheckpointTime' = m.lastCheckpointTime /\ timers' = m.timers
  /\ walFile' = m.walFile /\ files' = m.files /\ now' = m.now
  /\ tasks' = m.tasks /\ cur' = m.cur /\ startQ' = m.startQ
  /\ microQ' = m.microQ /\ immQ' = m.immQ /\ ioQ' = m.ioQ
  /\ events' = m.events /\ result' = m.result /\ hung' = m.hung
  /\ faults' = m.faults /\ hold' = m.hold /\ markerFile' = m.markerFile
  /\ usesMarker' = m.usesMarker /\ atomicWrites' = m.atomicWrites
  /\ torn' = m.torn /\ temps' = m.temps /\ loaded' = m.loaded

Holds(m) ==
  /\ data = m.data /\ activeTable = m.activeTable
  /\ writeBuffer = m.writeBuffer /\ walBuffer = m.walBuffer
  /\ cursor = m.cursor /\ tracker = m.tracker /\ cacheLimit = m.cacheLimit
  /\ isCheckpointing = m.isCheckpointing
  /\ lastCheckpointTime = m.lastCheckpointTime /\ timers = m.timers
  /\ walFile = m.walFile /\ files = m.files /\ now = m.now
  /\ tasks = m.tasks /\ cur = m.cur /\ startQ = m.startQ
  /\ microQ = m.microQ /\ immQ = m.immQ /\ ioQ = m.ioQ
  /\ events = m.events /\ result = m.result /\ hung = m.hung
  /\ faults = m.faults /\ hold = m.hold /\ markerFile = m.markerFile
  /\ usesMarker = m.usesMarker /\ atomicWrites = m.atomicWrites
  /\ torn = m.torn /\ temps = m.temps /\ loaded = m.loaded

\* What the caller has been promised about a key: nothing yet ("none"), a
\* value with the number of successful writes since it was created
\* ("val"), its absence ("gone"), or nothing definite ("any").  cnt < 0 is
\* an unknown count.  made is the number of the engine instance that gave
\* the promise, and wal marks a promise read off the WAL file of an
\* abandoned engine.
Promise(st, val, cnt, exp) ==
  [st |-> st, val |-> val, cnt |-> cnt, exp |-> exp, made |-> restarts, wal |-> FALSE]
NoPromise == Promise("none", NoValue, 0, 0)
AnyPromise == Promise("any", NoValue, Undef, 0)

\* The promised record has expired at time clock.
Lapsed(p, clock) == p.st = "val" /\ p.exp # 0 /\ clock > p.exp

Written(p, val, exp, clock) ==
  Promise("val", val,
          IF p.st \in {"none", "gone"} THEN 1
          ELSE IF p.st = "val" /\ p.cnt >= 0 /\ ~Lapsed(p, clock) THEN p.cnt + 1
          ELSE Undef,
          exp)

RECURSIVE WrittenAll(_, _, _)
WrittenAll(e, ws, clock) ==
  IF ws = <<>> THEN e
  ELSE LET w == Head(ws)
       IN  WrittenAll([e EXCEPT ![w.t][w.k] = Written(@, w.val, w.exp, clock)],
                      Tail(ws), clock)

RECURSIVE Doubted(_, _)
Doubted(e, ws) ==
  IF ws = <<>> THEN e
  ELSE Doubted([e EXCEPT ![Head(ws).t][Head(ws).k] = AnyPromise], Tail(ws))

Op(kind, t, k, val, ev, exp, ws) ==
  [kind |-> kind, t |-> t, k |-> k, val |-> val, ev |-> ev, exp |-> exp, ws |-> ws]
NoOp == Op("none", NoTableName, "k1", NoValue, Null, 0, <<>>)

\* The state after `new MikroDB()`: the constructor has created the WAL
\* file and set both timers.
FreshEngine(limit, clock, wal, fs) ==
  [data |-> [t \in Tables |-> NoTable], activeTable |-> NoTableName,
   writeBuffer |-> <<>>, walBuffer |-> <<>>, cursor |-> [t \in Tables |-> 0],
   tracker |-> <<>>, cacheLimit |-> limit, isCheckpointing |-> FALSE,
   lastCheckpointTime |-> clock, timers |-> Timers(TRUE, 1, TRUE), walFile |-> wal, files |-> fs,
   now |-> clock, tasks |-> [i \in TaskIds |-> NoTask], cur |-> 0,
   startQ |-> <<>>, microQ |-> <<>>, immQ |-> <<>>, ioQ |-> <<>>,
   events |-> <<>>, result |-> RetVoid, hung |-> FALSE,
   faults |-> <<>>, hold |-> FALSE, markerFile |-> FALSE, usesMarker |-> FALSE,
   atomicWrites |-> FALSE, torn |-> [t \in Tables |-> "no"], temps |-> 0,
   loaded |-> <<>>]

\* A new engine on the directory and in the build of engine m.
\* The constructor calls checkpoint.start() without awaiting it: with a
\* marker file that call is waiting for its readFile when the constructor
\* returns.
Rebuilt(m) ==
  LET e == [FreshEngine(m.cacheLimit, m.now, m.walFile, m.files)
              EXCEPT !.markerFile = m.markerFile, !.usesMarker = m.usesMarker,
                     !.atomicWrites = m.atomicWrites, !.torn = m.torn,
                     !.temps = m.temps]
  IN  IF ~m.markerFile THEN e
      ELSE [e EXCEPT !.timers = Timers(TRUE, 0, FALSE),
                     !.tasks[2] =
                        [stack |-> <<[Frame("checkpointStart") EXCEPT !.pc = 1, !.n = 1]>>,
                         parent |-> 0],
                     !.ioQ = <<IO(2, "readFile", NoTableName, NoFile, <<>>)>>]

InitWith(limit, ops) ==
  /\ Holds(FreshEngine(limit, 1, <<>>, [t \in Tables |-> NoFile]))
  /\ phase = "new" /\ epoch = "first" /\ restarts = 0 /\ budget = ops
  /\ lastOp = NoOp
  /\ expect = [t \in Tables |-> [k \in StoredKeys |-> NoPromise]]

\* -------------------------------------------------------------- actions
\* Client calls are made one at a time, each awaited before the next; the
\* sets an action takes are the arguments the callers of a workload use.
Ready == phase = "up" /\ ~hung /\ budget > 0

Called(kind) == Op(kind, NoTableName, "k1", NoValue, Null, 0, <<>>)

\* `await db.start()`
Start ==
  /\ phase = "new" /\ ~hung
  /\ \E m \in {Invoke(Machine, Frame("start"))} : Install(m)
  \* ev = 1 records that the marker file existed, ws the WAL file then
  /\ phase' = "up"
  /\ lastOp' = [Called("start") EXCEPT !.ev = IF markerFile THEN 1 ELSE Null,
                                        !.ws = walFile]
  /\ UNCHANGED <<epoch, restarts, budget, expect>>

\* `await db.write({tableName, key, value, expectedVersion, expiration})`
Write(ts, ks, vals, evs, exps) ==
  /\ Ready
  /\ \E t \in ts, k \in ks, val \in vals, ev \in evs, exp \in exps :
       LET ws == <<WriteOp(t, k, val, ev, exp)>>
       IN  \E m \in {Invoke(Machine, [Frame("write") EXCEPT !.ws = ws])} :
           /\ Install(m)
           /\ lastOp' = Op("write", t, k, val, ev, exp, ws)
           /\ expect' = IF m.hung THEN expect
                         ELSE IF m.result.err THEN Doubted(expect, ws)
                         ELSE IF m.result.b THEN WrittenAll(expect, ws, now)
                         ELSE expect
  /\ budget' = budget - 1 /\ UNCHANGED <<phase, epoch, restarts>>

\* `await db.write([op1, op2])`: two operations in one slice, with the
\* expected versions evs[1] and evs[2].  Two operations on one key are in
\* flight together, so nothing definite is promised about that key.
WriteBatch(ts, ks, evPairs) ==
  /\ Ready
  /\ \E t \in ts, ka \in ks, kb \in ks, evs \in evPairs :
       LET ws == <<WriteOp(t, ka, "v1", evs[1], 0), WriteOp(t, kb, "v2", evs[2], 0)>>
       IN  \E m \in {Invoke(Machine, [Frame("write") EXCEPT !.ws = ws])} :
           /\ Install(m)
           /\ lastOp' = Op("batch", t, ka, NoValue, evs[1], 0, ws)
           /\ expect' = IF m.hung THEN expect
                         ELSE IF m.result.b /\ ka # kb /\ ~m.result.err
                         THEN WrittenAll(expect, ws, now)
                         ELSE Doubted(expect, ws)
  /\ budget' = budget - 1 /\ UNCHANGED <<phase, epoch, restarts>>

\* `await db.write(ws, { concurrencyLimit })`
WriteSliced(batches, limits) ==
  /\ Ready /\ ~hold
  /\ \E ws \in batches, limit \in limits :
       \E m \in {Invoke(Machine, [Frame("write") EXCEPT !.ws = ws, !.ver = limit])} :
         /\ Install(m)
         /\ lastOp' = Op("sliced", ws[1].t, ws[1].k, NoValue, ws[1].ev, limit, ws)
         /\ expect' = IF m.hung THEN expect ELSE Doubted(expect, ws)
  /\ budget' = budget - 1 /\ UNCHANGED <<phase, epoch, restarts>>

\* The same call while other calls wait for the file system.
WriteSlicedCall(batches, limits) ==
  /\ phase = "up" /\ ~hung /\ hold /\ budget > 0 /\ tasks[1] = NoTask
  /\ \E ws \in batches, limit \in limits :
       \E m \in {Invoke(Machine, [Frame("write") EXCEPT !.ws = ws, !.ver = limit])} :
         /\ Install(m)
         /\ lastOp' = Op("slicedCall", ws[1].t, ws[1].k, NoValue, ws[1].ev, limit, ws)
         /\ expect' = IF m.hung THEN expect ELSE Doubted(expect, ws)
  /\ budget' = budget - 1 /\ UNCHANGED <<phase, epoch, restarts>>

\* `await db.delete({tableName, key, expectedVersion})`
Delete(ts, ks, evs) ==
  /\ Ready
  /\ \E t \in ts, k \in ks, ev \in evs :
       \E m \in {Invoke(Machine, [Frame("delete") EXCEPT !.t = t, !.k = k,
                                                          !.ev = orNull(ev)])} :
           /\ Install(m)
           /\ lastOp' = Op("delete", t, k, NoValue, ev, 0, <<>>)
           /\ expect' = IF m.hung THEN expect
                         ELSE IF m.result.err THEN [expect EXCEPT ![t][k] = AnyPromise]
                         ELSE IF m.result.b
                         THEN [expect EXCEPT ![t][k] = Promise("gone", NoValue, 0, 0)]
                         ELSE expect
  /\ budget' = budget - 1 /\ UNCHANGED <<phase, epoch, restarts>>

\* `await db.get({tableName, key})` (mode "key"), `db.get({tableName})`
\* ("all") and `db.get({tableName, options: {}})` ("query").
Get(ts, ks, modes) ==
  /\ Ready
  /\ \E t \in ts, k \in ks, mode \in modes :
       /\ mode # "key" => \A j \in ks : k = j \/ k = "k1"
       /\ \E m \in {Invoke(Machine, [Frame("get") EXCEPT !.t = t, !.k = k,
                                                          !.op = mode])} : Install(m)
       /\ lastOp' = Op(mode, t, k, NoValue, Null, 0, <<>>)
  /\ budget' = budget - 1 /\ UNCHANGED <<phase, epoch, restarts, expect>>

\* `await db.write(batch)` for the batches of a workload; the operations
\* of a batch are in flight together, so nothing definite is promised
\* about their keys.
WriteOps(batches) ==
  /\ Ready
  /\ \E ws \in batches :
       \E m \in {Invoke(Machine, [Frame("write") EXCEPT !.ws = ws])} :
         /\ Install(m)
         /\ lastOp' = Op("batch", ws[1].t, ws[1].k, NoValue, ws[1].ev, 0, ws)
         /\ expect' = IF m.hung THEN expect ELSE Doubted(expect, ws)
  /\ budget' = budget - 1 /\ UNCHANGED <<phase, epoch, restarts>>

\* `await db.deleteTable(tableName)`: what was promised about the keys of
\* the table is no longer promised.
DeleteTable(ts) ==
  /\ Ready
  /\ \E t \in ts :
       /\ \E m \in {Invoke(Machine, FrameT("deleteTable", t))} : Install(m)
       /\ lastOp' = Op("deleteTable", t, "k1", NoValue, Null, 0, <<>>)
       /\ expect' = [expect EXCEPT ![t] = [k \in StoredKeys |-> AnyPromise]]
  /\ budget' = budget - 1 /\ UNCHANGED <<phase, epoch, restarts>>

\* `await db.cleanupExpiredItems()`
CleanupExpiredItems ==
  /\ Ready
  /\ \E m \in {Invoke(Machine, Frame("cleanupExpiredItems"))} : Install(m)
  /\ lastOp' = Called("cleanup")
  /\ budget' = budget - 1 /\ UNCHANGED <<phase, epoch, restarts, expect>>

\* `await db.getTableSize(tableName)`
GetTableSize(ts) ==
  /\ Ready
  /\ \E t \in ts :
       /\ \E m \in {Invoke(Machine, FrameT("getTableSize", t))} : Install(m)
       /\ lastOp' = Op("size", t, "k1", NoValue, Null, 0, <<>>)
  /\ budget' = budget - 1 /\ UNCHANGED <<phase, epoch, restarts, expect>>

\* `await db.flush()`
Flush ==
  /\ Ready
  /\ \E m \in {Invoke(Machine, Frame("flush"))} : Install(m)
  /\ lastOp' = Called("flush")
  /\ budget' = budget - 1 /\ UNCHANGED <<phase, epoch, restarts, expect>>

\* `await db.flushWAL()`
FlushWAL ==
  /\ Ready
  /\ \E m \in {Invoke(Machine, Frame("flushWAL"))} : Install(m)
  /\ lastOp' = Called("flushWAL")
  /\ budget' = budget - 1 /\ UNCHANGED <<phase, epoch, restarts, expect>>

\* `await db.close()`, on an engine that was constructed ("new") or
\* constructed and started ("up").
CloseAt(phases) ==
  /\ phase \in phases /\ ~hung
  /\ \E m \in {Invoke(Machine, Frame("close"))} : Install(m)
  /\ phase' = "closed" /\ lastOp' = Called("close")
  /\ UNCHANGED <<epoch, restarts, budget, expect>>
Close == CloseAt({"up"})

\* The WAL timer of WriteAheadLog.start fires.
WalTimer ==
  /\ phase = "up" /\ ~hung /\ timers.wal /\ walBuffer # <<>>
  /\ \E m \in {Fire(Machine, Frame("flushWAL"))} : Install(m)
  /\ lastOp' = Called("walTimer")
  /\ UNCHANGED <<phase, epoch, restarts, budget, expect>>

\* The checkpoint timer of Checkpoint.start fires, one interval later.
CheckpointTimer ==
  /\ phase = "up" /\ ~hung /\ timers.armed > 0 /\ now + checkpointInterval <= MaxTime
  /\ \E m \in {Fire([Machine EXCEPT !.now = @ + checkpointInterval],
                    Frame("checkpoint"))} : Install(m)
  /\ lastOp' = Called("checkpointTimer")
  /\ UNCHANGED <<phase, epoch, restarts, budget, expect>>

\* An interval that close() did not clear fires on the closed engine.
StrayTimer ==
  /\ phase = "closed" /\ ~hung /\ timers.armed > 0
  /\ now + checkpointInterval <= MaxTime
  /\ \E m \in {Fire([Machine EXCEPT !.now = @ + checkpointInterval],
                    Frame("checkpoint"))} : Install(m)
  /\ lastOp' = Called("strayTimer")
  /\ UNCHANGED <<phase, epoch, restarts, budget, expect>>

\* Time passes.
Tick ==
  /\ ~hung
  /\ \E later \in (now + 1)..MaxTime : now' = later
  /\ lastOp' = Called("tick")
  /\ UNCHANGED <<data, activeTable, writeBuffer, walBuffer, cursor, tracker,
                 cacheLimit, isCheckpointing, lastCheckpointTime, timers,
                 walFile, files, tasks, cur, startQ, microQ, immQ, ioQ,
                 events, result, hung, faults, hold, markerFile, usesMarker,
                 atomicWrites, torn, temps, loaded, phase, epoch, restarts, budget, expect>>

\* The checkpoint callback the WAL calls when its file has outgrown
\* maxWalSizeBeforeCheckpoint: checkpoint(true).
CheckpointNow ==
  /\ Ready
  /\ \E m \in {Invoke(Machine, [Frame("checkpoint") EXCEPT !.force = TRUE])} : Install(m)
  /\ lastOp' = [Called("checkpointNow") EXCEPT !.ws = walFile \o walBuffer]
  /\ budget' = budget - 1 /\ UNCHANGED <<phase, epoch, restarts, expect>>

\* The file system is about to fail: plan says what happens to the next
\* writes of table files and appends to the WAL file.
Arm(plans) ==
  /\ phase = "up" /\ ~hung /\ faults = <<>> /\ budget > 0
  /\ \E plan \in plans : faults' = plan
  /\ lastOp' = Called("arm")
  /\ UNCHANGED <<data, activeTable, writeBuffer, walBuffer, cursor, tracker,
                 cacheLimit, isCheckpointing, lastCheckpointTime, timers,
                 walFile, files, now, tasks, cur, startQ, microQ, immQ, ioQ,
                 events, result, hung, hold, markerFile, usesMarker,
                 atomicWrites, torn, temps, loaded, phase, epoch, restarts, budget, expect>>

\* The last entry of the WAL file for a key, 0 if there is none.
LastEntry(wal, t, k) ==
  LET hits == {i \in 1..Len(wal) : wal[i].t = t /\ wal[i].k = k}
  IN  IF hits = {} THEN 0 ELSE CHOOSE i \in hits : \A j \in hits : j <= i

\* What the WAL file of an abandoned engine promises of every key.
Salvaged(wal) ==
  [t \in Tables |-> [k \in StoredKeys |->
     LET i == LastEntry(wal, t, k)
     IN  IF i # 0 /\ wal[i].op = "W"
         THEN [Promise("val", wal[i].val,
                       IF wal[i].ver >= 0 THEN wal[i].ver ELSE Undef, wal[i].exp)
                 EXCEPT !.made = restarts + 1, !.wal = TRUE]
         ELSE [AnyPromise EXCEPT !.made = restarts + 1]]]

\* The process dies without close(); a new engine is constructed on the
\* same directory.  Only what the WAL file records stays promised.
Crash ==
  /\ phase = "up" /\ ~hung /\ restarts < MaxRestarts
  /\ Install(Rebuilt(Machine))
  /\ phase' = "new" /\ epoch' = "afterCrash" /\ restarts' = restarts + 1
  /\ lastOp' = Called("crash")
  /\ expect' = Salvaged(walFile)
  /\ UNCHANGED budget

\* The engine after j of its outstanding file operations have completed.
RECURSIVE Completed(_, _)
Completed(m, j) ==
  IF j = 0 \/ m.ioQ = <<>> \/ m.hung THEN m
  ELSE Completed(Run(CompleteIO(m), MaxRounds), j - 1)

\* The engine while call g waits for the file system, j file operations
\* after it began.
Partway(m, g, j) ==
  Completed(Run([m EXCEPT !.hold = TRUE, !.tasks[1] = [stack |-> <<g>>, parent |-> 0],
                          !.cur = 1, !.events = <<>>, !.result = RetVoid],
                MaxRounds), j)

\* The process dies while call g waits for a file operation; a new engine
\* is constructed on the same directory.
CrashIn(gs, js) ==
  /\ phase = "up" /\ ~hung /\ restarts < MaxRestarts
  /\ \E g \in gs, j \in js : \E m \in {Partway(Machine, g, j)} :
       /\ ~m.hung /\ m.ioQ # <<>>
       /\ Install(Rebuilt(m))
       /\ expect' = Salvaged(m.walFile)
  /\ phase' = "new" /\ epoch' = "afterCrash" /\ restarts' = restarts + 1
  /\ lastOp' = Called("crashIn")
  /\ UNCHANGED budget

\* After close(), a new engine is constructed on the same directory.
Reopen ==
  /\ phase = "closed" /\ ~hung /\ restarts < MaxRestarts
  /\ Install(Rebuilt(Machine))
  /\ phase' = "new" /\ epoch' = "afterClose" /\ restarts' = restarts + 1
  /\ lastOp' = Called("reopen")
  /\ UNCHANGED <<budget, expect>>

\* ------------------------------------------------------- specifications
\* Versions and optimistic concurrency: one key in each of two tables that
\* both fit the cache.
OpsVersions == 3
WriteVersioned == Write(Tables, {"k1"}, Values, {Null, 0, 1}, {0})
WriteBatchVersioned == WriteBatch(Tables, {"k1"}, {<<0, 0>>})
DeleteVersioned == Delete(Tables, {"k1"}, {Null, 0, 1})
GetOne == Get(Tables, {"k1"}, {"key"})
InitVersions == InitWith(defaultCacheLimit, OpsVersions)
NextVersions ==
  \/ Start \/ WriteVersioned \/ WriteBatchVersioned \/ DeleteVersioned \/ GetOne
SpecVersions == InitVersions /\ [][NextVersions]_vars

\* Table switches: one key in each of two tables that both fit the cache,
\* with the timers firing between the calls.
OpsSwitch == 4
WritePlain == Write(Tables, {"k1"}, Values, {Null}, {0})
DeletePlain == Delete(Tables, {"k1"}, {Null})
InitSwitch == InitWith(defaultCacheLimit, OpsSwitch)
NextSwitch ==
  \/ Start \/ WritePlain \/ DeletePlain \/ GetOne \/ WalTimer \/ CheckpointTimer
SpecSwitch == InitSwitch /\ [][NextSwitch]_vars

\* Eviction: two tables and a cache that holds one.
OpsEviction == 4
evictingCacheLimit == 1
InitEviction == InitWith(evictingCacheLimit, OpsEviction)
NextEviction == Start \/ WritePlain \/ GetOne
SpecEviction == InitEviction /\ [][NextEviction]_vars

\* Expiration: records written with and without a deadline, read by key,
\* in full and by query while time passes.
OpsExpiry == 4
WriteExpiring == Write(Tables, {"k1"}, {"v1"}, {Null}, {0, Deadline})
GetAny == Get(Tables, {"k1"}, {"key", "all", "query"})
InitExpiry == InitWith(defaultCacheLimit, OpsExpiry)
NextExpiry == Start \/ WriteExpiring \/ GetAny \/ Tick
SpecExpiry == InitExpiry /\ [][NextExpiry]_vars

\* Recovery: one table with two keys, closed or abandoned and opened again.
OpsRecovery == 4
WriteKeys == Write({"A"}, Keys, {"v1"}, {Null}, {0})
WriteBatchHalf == WriteBatch({"A"}, {"k1"}, {<<Null, 1>>})
DeleteKey == Delete({"A"}, {"k1"}, {Null})
GetKeys == Get({"A"}, Keys, {"key"})
InitRecovery == InitWith(defaultCacheLimit, OpsRecovery)
NextRecovery ==
  \/ Start \/ WriteKeys \/ WriteBatchHalf \/ DeleteKey \/ GetKeys
  \/ FlushWAL \/ CheckpointTimer \/ Close \/ Reopen \/ Crash
SpecRecovery == InitRecovery /\ [][NextRecovery]_vars

\* Durability: one table, a checkpoint by timer or by callback, and table
\* file writes that may fail.
OpsDurable == 3
WriteValues == Write({"A"}, {"k1"}, Values, {Null}, {0})
FailTableWrite == Arm({<<"failWrite">>})
InitDurable == InitWith(defaultCacheLimit, OpsDurable)
NextDurable ==
  \/ Start \/ WriteValues \/ DeleteKey \/ CheckpointTimer \/ CheckpointNow
  \/ FailTableWrite
SpecDurable == InitDurable /\ [][NextDurable]_vars

\* Persistence of version and expiration: one key, written with and
\* without an expected version, and an engine that is closed or abandoned
\* and opened again.
OpsPersist == 3
WriteExpected == Write({"A"}, {"k1"}, {"v1"}, {Null, 1, 2}, {0, Deadline})
InitPersist == InitWith(defaultCacheLimit, OpsPersist)
NextPersist == Start \/ WriteExpected \/ GetKeys \/ Close \/ Reopen \/ Crash
SpecPersist == InitPersist /\ [][NextPersist]_vars

\* Residency: two tables and a cache that holds one, with batches that
\* write both tables, deletes, sizes and forced checkpoints.
OpsResident == 3
WriteAcross == WriteOps({<<WriteOp("A", "k1", "v1", Null, 0), WriteOp("B", "k1", "v1", Null, 0)>>})
SizeOne == GetTableSize(Tables)
InitResident == InitWith(evictingCacheLimit, OpsResident)
NextResident ==
  \/ Start \/ WritePlain \/ WriteAcross \/ GetOne \/ DeletePlain \/ SizeOne
  \/ CheckpointNow
SpecResident == InitResident /\ [][NextResident]_vars

\* ---------------------------------------------- calls that overlap
\* With hold set, a call runs up to its first file operation and stays
\* there until the file system completes the operation, so the calls of a
\* workload overlap as the event loop lets them.
Held == phase = "up" /\ ~hung /\ hold

\* WriteAheadLog.appendToWAL(table, 'W', key, value, version): the entries
\* are numbered in the order of the calls (the version field carries the
\* number).
AppendCall(ts, ks) ==
  /\ Held /\ budget > 0 /\ FreeTasks(Machine) # {}
  /\ \E t \in ts, k \in ks :
       \E m \in {Fire(Machine, [Frame("appendToWAL") EXCEPT
                                  !.op = "W", !.t = t, !.k = k, !.val = "v1",
                                  !.ver = lastOp.exp + 1])} :
         /\ Install(m)
         /\ lastOp' = [Called("append") EXCEPT !.t = t, !.k = k, !.exp = lastOp.exp + 1]
  /\ budget' = budget - 1 /\ UNCHANGED <<phase, epoch, restarts, expect>>

\* flushWAL() by the WAL timer or by the caller, while other calls wait.
FlushWALCall ==
  /\ Held /\ walBuffer # <<>> /\ FreeTasks(Machine) # {}
  /\ \E m \in {Fire(Machine, Frame("flushWAL"))} : Install(m)
  /\ lastOp' = [Called("flushWALCall") EXCEPT !.exp = lastOp.exp]
  /\ UNCHANGED <<phase, epoch, restarts, budget, expect>>

\* The file system completes the oldest outstanding operation, as the
\* fate says; the call that waited for it runs on.
Done(fates) ==
  /\ Held /\ ioQ # <<>>
  /\ \E fate \in fates :
       /\ fate # "ok" => Meets([Machine EXCEPT !.faults = <<fate>>], Head(ioQ))
       /\ \E m \in {Settle(CompleteIO([Machine EXCEPT !.faults = <<fate>>,
                                                        !.result = RetVoid]))} :
            Install([m EXCEPT !.faults = <<>>])
       /\ lastOp' = [Called("done") EXCEPT !.val = fate, !.exp = lastOp.exp]
  /\ UNCHANGED <<phase, epoch, restarts, budget, expect>>

\* The WAL alone: appends, flushes by threshold and by call, and appends
\* to the WAL file that may fail.
OpsWal == 4
InitHeld(ops) ==
  /\ Holds([FreshEngine(defaultCacheLimit, 1, <<>>, [t \in Tables |-> NoFile])
              EXCEPT !.hold = TRUE])
  /\ phase = "new" /\ epoch = "first" /\ restarts = 0 /\ budget = ops
  /\ lastOp = NoOp
  /\ expect = [t \in Tables |-> [k \in StoredKeys |-> NoPromise]]
AppendOne == AppendCall({"A"}, {"k1"})
AppendDone == Done({"ok", "failAppend"})
InitWal == InitHeld(OpsWal)
NextWal == Start \/ AppendOne \/ FlushWALCall \/ AppendDone
SpecWal == InitWal /\ [][NextWal]_vars

\* loadWAL(table), as applyWALEntries calls it on behalf of a get or a
\* write, while other calls wait for the file system.
LoadCall(ts) ==
  /\ Held /\ budget > 0 /\ FreeTasks(Machine) # {}
  /\ \E t \in ts :
       \E m \in {Fire(Machine, [Frame("loadWAL") EXCEPT !.t = t])} :
         /\ Install(m)
         /\ lastOp' = [Called("loadCall") EXCEPT !.t = t, !.exp = lastOp.exp]
  /\ budget' = budget - 1 /\ UNCHANGED <<phase, epoch, restarts, expect>>

\* checkpoint(true), as the checkpoint callback of the WAL calls it.
CheckpointCall ==
  /\ Held /\ budget > 0 /\ FreeTasks(Machine) # {}
  /\ \E m \in {Fire(Machine, [Frame("checkpoint") EXCEPT !.force = TRUE])} : Install(m)
  /\ lastOp' = [Called("checkpointCall") EXCEPT !.exp = lastOp.exp]
  /\ budget' = budget - 1 /\ UNCHANGED <<phase, epoch, restarts, expect>>

\* close(), while other calls wait; the caller makes no call after it.
CloseCall ==
  /\ Held /\ budget > 0 /\ FreeTasks(Machine) # {}
  /\ \E m \in {Fire(Machine, Frame("close"))} : Install(m)
  /\ lastOp' = [Called("closeCall") EXCEPT !.exp = lastOp.exp]
  /\ budget' = 0 /\ UNCHANGED <<phase, epoch, restarts, expect>>

\* The file system carries out the oldest operation it has not carried
\* out yet; the promise of the operation is still pending.
Oldest(q) == CHOOSE i \in 1..Len(q) : ~q[i].done /\ \A j \in 1..(i - 1) : q[j].done
PerformOp ==
  /\ Held /\ \E i \in 1..Len(ioQ) : ~ioQ[i].done
  /\ Install(PerformIO(Machine, Oldest(ioQ)))
  /\ lastOp' = [Called("perform") EXCEPT !.ev = Oldest(ioQ), !.exp = lastOp.exp]
  /\ UNCHANGED <<phase, epoch, restarts, budget, expect>>

\* The promise of an operation that was carried out settles; the thread
\* pool reports its completions in no particular order.
ResolveOp ==
  /\ Held
  /\ \E i \in 1..Len(ioQ) :
       /\ ioQ[i].done
       /\ \E m \in {Settle(ResolveIO([Machine EXCEPT !.result = RetVoid], i))} : Install(m)
       /\ lastOp' = [Called("resolve") EXCEPT !.ev = i, !.exp = lastOp.exp]
  /\ UNCHANGED <<phase, epoch, restarts, budget, expect>>

\* The WAL cursor: appends, loadWAL("A") and forced checkpoints that
\* overlap, no failures.
OpsCursor == 4
LoadOne == LoadCall({"A"})
InitCursor == InitHeld(OpsCursor)
NextCursor ==
  Start \/ AppendOne \/ FlushWALCall \/ LoadOne \/ CheckpointCall \/ PerformOp \/ ResolveOp
SpecCursor == InitCursor /\ [][NextCursor]_vars

\* Table files: writes whose writeFile or rename fails, or stops after
\* the file was opened for writing, in either version of writeToDisk.
OpsImage == 3
FailOrTear == Arm({<<"failWrite">>, <<"cutAll">>, <<"cutHeader">>})
InitImage ==
  /\ \E b \in BOOLEAN :
       Holds([FreshEngine(defaultCacheLimit, 1, <<>>, [t \in Tables |-> NoFile])
                EXCEPT !.atomicWrites = b])
  /\ phase = "new" /\ epoch = "first" /\ restarts = 0 /\ budget = OpsImage
  /\ lastOp = NoOp
  /\ expect = [t \in Tables |-> [k \in StoredKeys |-> NoPromise]]
NextImage == Start \/ WriteValues \/ FailOrTear \/ GetKeys \/ Crash
SpecImage == InitImage /\ [][NextImage]_vars

\* Checkpoint recovery: the build whose checkpoint keeps a marker file, and
\* a process that dies while a checkpoint waits for the file system.
OpsMarker == 3
MaxIO == 4
WithMarker(m) == [m EXCEPT !.usesMarker = TRUE]
CrashInCheckpoint == CrashIn({[Frame("checkpoint") EXCEPT !.force = TRUE]}, 0..MaxIO)
InitMarker ==
  /\ Holds(WithMarker(FreshEngine(defaultCacheLimit, 1, <<>>, [t \in Tables |-> NoFile])))
  /\ phase = "new" /\ epoch = "first" /\ restarts = 0 /\ budget = OpsMarker
  /\ lastOp = NoOp
  /\ expect = [t \in Tables |-> [k \in StoredKeys |-> NoPromise]]
NextMarker ==
  \/ Start \/ WriteKeys \/ GetKeys \/ CheckpointNow \/ CrashInCheckpoint \/ Crash
SpecMarker == InitMarker /\ [][NextMarker]_vars

\* Batches: two operations in one call, on one key or two, with and without
\* expected versions, between single writes and deletes.
OpsBatch == 3
WriteBatchMixed ==
  WriteBatch({"A"}, Keys, {<<Null, Null>>, <<Null, 1>>, <<1, Null>>, <<0, 0>>, <<2, 2>>})
InitBatch == InitWith(defaultCacheLimit, OpsBatch)
NextBatch == Start \/ WriteBatchMixed \/ WriteKeys \/ DeleteKey
SpecBatch == InitBatch /\ [][NextBatch]_vars

\* --------------------------------------------------------------- claims
\* The version a caller is entitled to expect for a key: the count of
\* successful writes, 0 for a key that does not exist.
PromisedVersion(p) == IF p.st = "val" THEN p.cnt ELSE 0
Definite(p) == p.st # "any" /\ p.cnt >= 0

\* What Table.getItem shows of a key: its value and version.
Shown(m, t, k) ==
  [found |-> getItemValue(m, t, k).found, value |-> getItemValue(m, t, k).value,
   version |-> getItemValue(m, t, k).version]

\* C1: the version of a stored record is the number of successful writes
\* to its key since the key was created or last deleted; the first write
\* gives version 1, whatever calls on other tables come in between.
C1_VersionCountsWrites ==
  \A t \in Tables, k \in Keys :
    (~hung /\ expect[t][k].st = "val" /\ expect[t][k].cnt >= 0
       /\ getItemValue(Machine, t, k).found)
    => getItemValue(Machine, t, k).version = expect[t][k].cnt

\* C2: of two writes of one batch slice to the same key that carry the same
\* expected version at most one succeeds, so the batch does not return
\* true.
C2_AtMostOneSucceeds ==
  (~hung /\ lastOp.kind = "batch"
     /\ lastOp.ws[1].k = lastOp.ws[2].k /\ lastOp.ws[1].ev # Null
     /\ lastOp.ws[1].ev = lastOp.ws[2].ev)
  => ~result.b

\* C3: a write whose expected version differs from the current version of
\* the key returns false and leaves the stored value and version, the WAL
\* buffer and the write buffer as they were.
C3_RejectedWriteChangesNothing ==
  [][(~hung' /\ lastOp'.kind = "write" /\ lastOp'.ev # Null
        /\ Definite(expect[lastOp'.t][lastOp'.k])
        /\ ~Lapsed(expect[lastOp'.t][lastOp'.k], now)
        /\ PromisedVersion(expect[lastOp'.t][lastOp'.k]) # lastOp'.ev)
     => /\ ~result'.b
        /\ Shown(Machine', lastOp'.t, lastOp'.k) = Shown(Machine, lastOp'.t, lastOp'.k)
        /\ walBuffer' = walBuffer
        /\ writeBuffer' = writeBuffer]_vars

\* C6: delete returns true exactly when the key is present and either no
\* expected version is given or it equals the current version; when it
\* returns false the table content, the WAL buffer and the write buffer are
\* unchanged and no event is emitted.
C6_DeleteOutcome ==
  [][(~hung' /\ lastOp'.kind = "delete" /\ Definite(expect[lastOp'.t][lastOp'.k]))
     => /\ result'.b <=>
             /\ expect[lastOp'.t][lastOp'.k].st = "val"
             /\ ~Lapsed(expect[lastOp'.t][lastOp'.k], now)
             /\ \/ lastOp'.ev = Null
                \/ lastOp'.ev = expect[lastOp'.t][lastOp'.k].cnt
        /\ ~result'.b =>
             /\ \A k \in Keys : Shown(Machine', lastOp'.t, k) = Shown(Machine, lastOp'.t, k)
             /\ walBuffer' = walBuffer /\ writeBuffer' = writeBuffer
             /\ events' = <<>>]_vars

\* The promise for the key that the last call named.
Asked == expect[lastOp.t][lastOp.k]

\* The last call was get(table, key) and it returned.
GotKey == ~hung /\ lastOp.kind = "key"

\* C4: once write(T, k, v) has returned true, every later get(T, k) on the
\* same engine returns v until k is next written, deleted or expires,
\* whatever table switches, timer flushes and checkpoints come in between.
C4_ReadYourWrites ==
  (GotKey /\ epoch = "first" /\ Asked.st = "val" /\ ~Lapsed(Asked, now))
  => (result.b /\ result.value = Asked.val)

\* C5: once delete(T, k) has returned true, get(T, k) on the same engine
\* returns not-found until k is next written, whatever comes in between.
C5_DeleteStaysDeleted ==
  (GotKey /\ epoch = "first" /\ Asked.st = "gone") => ~result.b

\* C7: get(table, key) of a record whose expiration is in the past returns
\* not-found and leaves no such record in memory, however it got there.
C7_ExpiredIsNotFound ==
  (GotKey /\ Lapsed(Asked, now))
  => (~result.b /\ ~data[lastOp.t].items[lastOp.k].has)

\* C8: get without a key and get with options include no record whose
\* expiration is in the past.
C8_ListingsSkipExpired ==
  (~hung /\ lastOp.kind \in {"all", "query"})
  => \A k \in result.keys : ~Lapsed(expect[lastOp.t][k], now)

\* C9: after close() a new engine on the same directory returns the last
\* value the closed engine wrote of every key and not-found for every key
\* it deleted last.
C9_RestartKeepsLastWrites ==
  (GotKey /\ epoch = "afterClose" /\ Asked.made = restarts - 1)
  => /\ (Asked.st = "val" /\ ~Lapsed(Asked, now))
          => (result.b /\ result.value = Asked.val)
     /\ Asked.st = "gone" => ~result.b

Log == walFile \o walBuffer

\* The table file holds what was promised of key k of table t.
InFile(t, k) ==
  IF expect[t][k].st = "val"
  THEN files[t].exists /\ files[t].recs[k].has
       /\ files[t].recs[k].value = expect[t][k].val
  ELSE ~files[t].recs[k].has

\* The last WAL entry of the key records what was promised of it.
InLog(t, k) ==
  /\ LastEntry(Log, t, k) # 0
  /\ IF expect[t][k].st = "val"
     THEN Log[LastEntry(Log, t, k)].op = "W"
          /\ Log[LastEntry(Log, t, k)].val = expect[t][k].val
     ELSE Log[LastEntry(Log, t, k)].op = "D"

\* C11: every successful write or delete whose effect is not in the file of
\* its table is still recorded in the WAL, buffer or file, whatever flushes,
\* checkpoints and failed table writes come in between: a checkpoint never
\* truncates an entry whose effect is not in the table file.
C11_LoggedUntilPersisted ==
  (~hung /\ epoch = "first")
  => \A t \in Tables, k \in Keys :
       expect[t][k].st \in {"val", "gone"} => (InFile(t, k) \/ InLog(t, k))

\* The file of table t holds the keys of the table in memory with their
\* values.
FileIsMemory(t) ==
  \A k \in Keys :
    /\ files[t].recs[k].has <=> k \in RawKeys(Machine, t)
    /\ k \in RawKeys(Machine, t) => files[t].recs[k].value = data[t].items[k].value

\* C12: when checkpoint(true) has completed without raising, the WAL file
\* is empty and the file of every table that had a WAL entry, a table whose
\* keys were all deleted included, holds what the table holds in memory.
C12_CheckpointPersistsTables ==
  (~hung /\ lastOp.kind = "checkpointNow" /\ ~result.err)
  => /\ walFile = <<>>
     /\ \A t \in SeqRange(TableNames(lastOp.ws)) : FileIsMemory(t)

\* The promise that a key holds a record was given by the engine before
\* this one, or read off its WAL file.
Inherited(p) == p.st = "val" /\ p.cnt >= 0 /\ (p.wal \/ p.made = restarts - 1)

\* C13: the version of a record survives persistence: after the table was
\* flushed and loaded again by a new engine, or rebuilt from the WAL, a
\* write whose expected version is the version the record had succeeds.
C13_VersionSurvivesReload ==
  [][(~hung' /\ lastOp'.kind = "write" /\ epoch # "first"
        /\ Inherited(expect[lastOp'.t][lastOp'.k])
        /\ ~Lapsed(expect[lastOp'.t][lastOp'.k], now)
        /\ lastOp'.ev = expect[lastOp'.t][lastOp'.k].cnt)
     => result'.b]_vars

\* C14: when the marker file `<wal>.checkpoint` exists at engine start, a
\* forced checkpoint has run to completion when start() returns: the tables
\* named in the WAL are persisted, the WAL file is truncated and the marker
\* file no longer exists.
C14_MarkerRecoveryCompletes ==
  (~hung /\ lastOp.kind = "start" /\ lastOp.ev = 1)
  => /\ ~markerFile
     /\ walFile = <<>>
     /\ \A t \in SeqRange(TableNames(lastOp.ws)) : FileIsMemory(t)

\* Operation w of a call was committed: the call appended its W entry to
\* the WAL (old is the WAL before the call) and its record is in memory
\* (the record of the later operation when both name one key).
Committed(m, old, w, ws) ==
  /\ \E i \in (Len(old) + 1)..Len(m.walFile \o m.walBuffer) :
        /\ (m.walFile \o m.walBuffer)[i].op = "W"
        /\ (m.walFile \o m.walBuffer)[i].t = w.t
        /\ (m.walFile \o m.walBuffer)[i].k = w.k
        /\ (m.walFile \o m.walBuffer)[i].val = w.val
  /\ w.k \in RawKeys(m, w.t)
  /\ m.data[w.t].items[w.k].value \in {x.val : x \in {y \in SeqRange(ws) : y.k = w.k}}

\* C15: write(batch) returns true exactly when every operation of the batch
\* was committed, its WAL entry appended and its record placed in memory; it
\* returns false when an operation was rejected for its expected version.
\* (Stated for calls during which no checkpoint truncated the WAL.)
C15_TrueIffAllCommitted ==
  [][(~hung' /\ lastOp'.kind = "batch" /\ ~result'.err
        /\ Len(walFile' \o walBuffer') >= Len(Log))
     => (result'.b <=> \A i \in 1..Len(lastOp'.ws) :
                         Committed(Machine', Log, lastOp'.ws[i], lastOp'.ws))]_vars

\* A batch of which one operation was rejected and the other committed
\* has returned false.
C15_HalfCommitted ==
  /\ ~hung /\ lastOp.kind = "batch" /\ ~result.b
  /\ lastOp.ws[1].k # lastOp.ws[2].k
  /\ lastOp.ws[1].k \in RawKeys(Machine, "A")
  /\ data["A"].items[lastOp.ws[1].k].value = "v1"
  /\ lastOp.ws[2].k \notin RawKeys(Machine, "A")

\* C16: when write has returned true, none of its WAL entries is left in
\* the WAL buffer, none of its records in the write buffer, and every
\* record is in the file of its table, also when a write of the table file
\* failed during the call.
C16_TrueMeansFlushed ==
  (~hung /\ lastOp.kind = "write" /\ result.b /\ ~result.err)
  => \A i \in 1..Len(lastOp.ws) :
       /\ \A j \in 1..Len(walBuffer) :
            ~(walBuffer[j].t = lastOp.ws[i].t /\ walBuffer[j].k = lastOp.ws[i].k)
       /\ \A j \in 1..Len(writeBuffer) :
            writeBuffer[j] # [t |-> lastOp.ws[i].t, k |-> lastOp.ws[i].k]
       /\ files[lastOp.ws[i].t].exists
       /\ files[lastOp.ws[i].t].recs[lastOp.ws[i].k].has
       /\ files[lastOp.ws[i].t].recs[lastOp.ws[i].k].value = lastOp.ws[i].val

\* The entries of outstanding appends to the WAL file, oldest first.
RECURSIVE InFlight(_)
InFlight(q) ==
  IF q = <<>> THEN <<>>
  ELSE (IF Head(q).kind = "appendFile" THEN Head(q).buf ELSE <<>>) \o InFlight(Tail(q))

\* The entries are in the order of their appendToWAL calls.
InOrder(entries) ==
  \A i, j \in 1..Len(entries) : i < j => entries[i].ver < entries[j].ver

\* C18: the entries are in the WAL file in the order of their appendToWAL
\* calls, for any interleaving of overlapping flushWAL calls (by threshold,
\* by timer or explicit) and for flushes that fail and are retried.
C18_FileInAppendOrder == hold => InOrder(walFile)

\* The number of entries of a sequence that carry number n.
Copies(entries, n) == Cardinality({i \in 1..Len(entries) : entries[i].ver = n})

\* The append of a flushWAL call has just failed; taken is what the call
\* had taken from the buffer.
AppendFailed ==
  /\ hold /\ ioQ # <<>> /\ Head(ioQ).kind = "appendFile"
  /\ lastOp'.kind = "done" /\ lastOp'.val = "failAppend" /\ ~hung'

\* C17: when the append inside flushWAL fails, the error reaches the caller
\* and the WAL buffer holds the entries that were not written followed by
\* the entries appended in the meantime; no entry is lost or duplicated.
C17_FailedFlushRestoresBuffer ==
  [][AppendFailed =>
       LET taken == Head(ioQ).buf
       IN  /\ result'.err
           /\ Len(walBuffer') >= Len(taken)
           /\ SubSeq(walBuffer', 1, Len(taken)) = taken
           /\ \A j \in (Len(taken) + 1)..Len(walBuffer') :
                walBuffer'[j].ver > taken[Len(taken)].ver
           /\ \A n \in 1..lastOp'.exp :
                Copies(walFile' \o InFlight(ioQ') \o walBuffer', n)
                  = Copies(walFile \o InFlight(ioQ) \o walBuffer, n)]_vars

\* ---------------------------------------------------------------- C19
\* C19: between two truncations of the WAL file, the loadWAL("A") calls
\* return every entry of table A in the file exactly once and in file
\* order, also when a call overlaps the truncate-and-clear of a
\* checkpoint: no entry is returned twice, and when a call returns,
\* every entry of A in the content it read has been returned, by it or
\* by a call before it.
OfTable(h, t) == SelectSeq(h, LAMBDA e : e.t = t)
OnceInOrder(h) == \A i, j \in 1..Len(h) : i < j => h[i].n < h[j].n
LoadReturns(t) ==
  /\ lastOp'.kind = "resolve"
  /\ LET io == ioQ[lastOp'.ev]
     IN  /\ io.kind = "readFile" /\ io.t = NoTableName
         /\ Top(Machine, io.task).fn = "loadWAL" /\ Top(Machine, io.task).t = t
Unreturned(content, h, t) ==
  {i \in 1..Len(content) :
     /\ content[i].t = t
     /\ \A j \in 1..Len(h) : h[j].n # ParseNumber(content[i].ver)}
C19_EachEntryOnce ==
  [][/\ OnceInOrder(OfTable(loaded', "A"))
     /\ LoadReturns("A") => Unreturned(ioQ[lastOp'.ev].buf, loaded', "A") = {}]_vars

\* ---------------------------------------------------------------- C20
\* C20: the file of a table holds the previous complete image or the
\* new complete image at every point, never a partial one, also when a
\* table write fails or stops in the middle: over every call each table
\* file stays as it was or becomes the image of the table in memory, no
\* file is left partial and no temp file is left behind.
NewImage(t) == data'[t].res /\ files'[t] = toBinaryBuffer(data'[t])
C20_ImageOldOrNew ==
  [][/\ \A t \in Tables :
          torn'[t] = "no" /\ (files'[t] = files[t] \/ NewImage(t))
     /\ temps' = 0]_vars

\* ---------------------------------------------------------------- C21
\* C21: after every completed get, write, delete, getTableSize or
\* checkpoint, the number of tables resident in memory is at most the
\* cache limit.
Completes ==
  phase = "up" /\ ~hung
    /\ lastOp.kind \in {"key", "write", "batch", "delete", "size", "checkpointNow"}
OpsCache == 5
MaxCount == 4
CacheLimits == {1, 2}

TrackTableAccess ==
  /\ phase = "new" /\ budget > 0
  /\ \E t \in Tables :
       /\ Install(trackTableAccess(Machine, t))
       /\ lastOp' = [Called("track") EXCEPT !.t = t]
  /\ budget' = budget - 1 /\ UNCHANGED <<phase, epoch, restarts, expect>>

\* `cache.findTablesForEviction(n)`: the array it returns is kept in
\* result.ops, the count it was given in lastOp.exp.
FindTablesForEviction ==
  /\ phase = "new" /\ budget > 0
  /\ \E n \in 0..MaxCount :
       /\ \E victims \in {findTablesForEviction(Machine, n)} :
            Install([untrack(Machine, victims) EXCEPT !.result.ops = victims])
       /\ lastOp' = [Called("find") EXCEPT !.exp = n]
  /\ budget' = budget - 1 /\ UNCHANGED <<phase, epoch, restarts, expect>>

InitCache == \E limit \in CacheLimits : InitWith(limit, OpsCache)
NextCache == TrackTableAccess \/ FindTablesForEviction \/ Tick
SpecCache == InitCache /\ [][NextCache]_vars

AccessTime(tr, t) == (CHOOSE e \in SeqRange(tr) : e.t = t).at
Tracked(tr) == {e.t : e \in SeqRange(tr)}
\* out holds `size` tracked tables, none with a later access than a table
\* left behind, oldest first, and tr2 is tr without them.
OldestFirst(tr, out, size, tr2) ==
  /\ Len(out) = size
  /\ SeqRange(out) \subseteq Tracked(tr)
  /\ \A i, j \in 1..Len(out) :
       i < j => out[i] # out[j] /\ AccessTime(tr, out[i]) <= AccessTime(tr, out[j])
  /\ \A t \in Tracked(tr) \ SeqRange(out) :
       \A i \in 1..Len(out) : AccessTime(tr, out[i]) <= AccessTime(tr, t)
  /\ tr2 = SelectSeq(tr, LAMBDA e : e.t \notin SeqRange(out))
Finds == lastOp'.kind = "find"

\* C22 as stated: findTablesForEviction(n) returns the empty list when n
\* is at most the cache limit, and otherwise exactly n minus limit tracked
\* tables, those with the smallest access times, oldest first, and removes
\* exactly those from the tracker.
C22_ExactlyExcess ==
  [][Finds =>
       OldestFirst(tracker, result'.ops,
                   IF lastOp'.exp <= cacheLimit THEN 0 ELSE lastOp'.exp - cacheLimit,
                   tracker')]_vars

\* C22 with the count the slice can deliver: findTablesForEviction(n)
\* returns the empty list when n is at most the cache limit, and otherwise
\* the n minus limit tracked tables with the smallest access times, or
\* all tracked tables when fewer are tracked, oldest first, and removes
\* exactly those from the tracker.
C22_ExcessOrAllTracked ==
  [][Finds =>
       OldestFirst(tracker, result'.ops,
                   IF lastOp'.exp <= cacheLimit THEN 0
                   ELSE Min(lastOp'.exp - cacheLimit, Len(tracker)),
                   tracker')]_vars
\* One of two tracked tables was returned and the other is still tracked.
C22_OldestReturned ==
  /\ lastOp.kind = "find" /\ lastOp.exp = cacheLimit + 1
  /\ Len(result.ops) = 1 /\ Len(tracker) = 1
  /\ tracker[1].at > 1

\* ---------------------------------------------------------------- C23
\* Bringing the engine up and down: close() after the constructor alone or
\* after start(), with writes in between and a new engine afterwards.
OpsTimers == 2
CloseAnyTime == CloseAt({"new", "up"})
InitTimers == InitWith(defaultCacheLimit, OpsTimers)
NextTimers ==
  Start \/ WritePlain \/ CheckpointTimer \/ CloseAnyTime \/ StrayTimer \/ Reopen
SpecTimers == InitTimers /\ [][NextTimers]_vars

\* C23: after close() has returned no WAL flush interval and no checkpoint
\* interval remains armed, whether or not start() was called, and the
\* final flush has emptied the WAL buffer and the write buffer.
C23_NoTimerAfterClose ==
  phase = "closed" /\ ~hung =>
    /\ ~timers.wal /\ timers.armed = 0
    /\ walBuffer = <<>> /\ writeBuffer = <<>>

\* ---------------------------------------------------------------- C24
\* A database directory in which the file of one table does not hold a
\* table image: eight or more bytes that do not start with 'M' 'D' 'B' 1
\* ("badMagic"), or, on an engine with an encryption key, an encrypted
\* file that the key does not decrypt ("undecryptable").
OpsCorrupt == 2
Unreadable == {"badMagic", "undecryptable"}
InitCorrupt ==
  /\ \E t \in Tables, kind \in Unreadable :
       Holds([FreshEngine(defaultCacheLimit, 1, <<>>,
                          [u \in Tables |-> IF u = t THEN [NoFile EXCEPT !.exists = TRUE]
                                                     ELSE NoFile])
                EXCEPT !.torn[t] = kind])
  /\ phase = "new" /\ epoch = "first" /\ restarts = 0 /\ budget = OpsCorrupt
  /\ lastOp = NoOp
  /\ expect = [t \in Tables |-> [k \in StoredKeys |-> NoPromise]]
NextCorrupt == Start \/ WritePlain \/ GetOne \/ Tick
SpecCorrupt == InitCorrupt /\ [][NextCorrupt]_vars

\* C24: a get or write on a table whose file has invalid magic bytes, or
\* is encrypted and fails to decrypt, is not rejected: the table is set up
\* empty in memory and the operation proceeds on it.
C24_UnreadableFileLoadsEmpty ==
  (/\ phase = "up" /\ ~hung /\ lastOp.kind \in {"key", "write"}
   /\ torn[lastOp.t] \in Unreadable)
    => ~result.err /\ data[lastOp.t].res

\* ---------------------------------------------------------------- C25
\* Tables are written, read and deleted as tables; an append to the WAL
\* file may fail, which leaves its entries in the WAL buffer.
OpsDrop == 3
DropTable == DeleteTable(Tables)
FailAppend == Arm({<<"failAppend">>})
InitDrop == InitWith(defaultCacheLimit, OpsDrop)
NextDrop == Start \/ WritePlain \/ GetOne \/ DropTable \/ FailAppend
SpecDrop == InitDrop /\ [][NextDrop]_vars

\* C25: deleteTable(T) removes T from memory and emits table.deleted; the
\* file of T, the WAL file, the WAL buffer and every other table, in
\* memory and on disk, are as they were before the call.
C25_DeleteTableFrame ==
  [][lastOp'.kind = "deleteTable" /\ ~hung' =>
       /\ ~data'[lastOp'.t].res /\ "table.deleted" \in Names(events')
       /\ files' = files /\ walFile' = walFile /\ walBuffer' = walBuffer
       /\ \A u \in Tables \ {lastOp'.t} : data'[u] = data[u]]_vars
\* A table with a record in memory and in its file was deleted while the
\* WAL file and the WAL buffer held entries.
C25_TableWithFileDeleted ==
  /\ lastOp.kind = "deleteTable" /\ ~hung /\ ~data[lastOp.t].res
  /\ files[lastOp.t].exists /\ files[lastOp.t].recs["k1"].has
  /\ walFile # <<>> /\ walBuffer # <<>>
  /\ "table.deleted" \in Names(events)

\* ---------------------------------------------------------------- C26
\* Expiring records that are written, replayed from the WAL by a new
\* engine or loaded from the table file, and a cleanup as time passes.
OpsCleanup == 3
WriteDeadline == Write({"A"}, Keys, {"v1"}, {Null}, {0, Deadline})
InitCleanup == InitWith(defaultCacheLimit, OpsCleanup)
NextCleanup ==
  Start \/ WriteDeadline \/ GetKeys \/ CleanupExpiredItems \/ Tick \/ Close \/ Reopen \/ Crash
SpecCleanup == InitCleanup /\ [][NextCleanup]_vars

\* The expiration of a record in memory, under either name the record
\* keeps it; 0 when it has none.
ExpirationOf(item) ==
  IF item.x > 0 THEN item.x ELSE IF item.expiration > 0 THEN item.expiration ELSE 0
Overdue(item, clock) == item.has /\ ExpirationOf(item) > 0 /\ ExpirationOf(item) < clock
Entries(op, wal) == Len(SelectSeq(wal, LAMBDA e : e.op = op))

\* The log `after` is the log `before` with entries appended (no
\* checkpoint truncated it in between).
Extends(after, before) ==
  Len(after) >= Len(before) /\ SubSeq(after, 1, Len(before)) = before

\* C26: after cleanupExpiredItems() no table in memory holds a record whose
\* expiration is in the past; each removed record has one D entry appended
\* to the WAL and item.expired emitted; the records without an expiration
\* or with one in the future are unchanged.
C26_CleanupRemovesOverdue ==
  [][lastOp'.kind = "cleanup" /\ ~hung' =>
       LET removed == {<<t, k>> \in Tables \X Keys :
                         data[t].res /\ data[t].items[k].has /\ ~data'[t].items[k].has}
       IN  /\ \A t \in Tables, k \in Keys :
                 data'[t].res => ~Overdue(data'[t].items[k], now')
           /\ Extends(walFile' \o walBuffer', walFile \o walBuffer) =>
                 Entries("D", walFile' \o walBuffer') =
                   Entries("D", walFile \o walBuffer) + Cardinality(removed)
           /\ removed # {} => "item.expired" \in Names(events')
           /\ \A t \in Tables, k \in Keys :
                 data[t].res /\ ~Overdue(data[t].items[k], now)
                   => data'[t].items[k] = data[t].items[k]]_vars

\* ---------------------------------------------------------------- C27
\* Checkpoints that overlap with appends, with each other and with
\* close(), the file system completing its operations in order.
OpsOverlap == 5
FileDone == Done({"ok"})
InitOverlap == InitHeld(OpsOverlap)
NextOverlap == Start \/ AppendOne \/ CheckpointCall \/ CloseCall \/ FileDone
SpecOverlap == InitOverlap /\ [][NextOverlap]_vars

\* The tasks that are inside the body of Checkpoint.checkpoint, past the
\* two early returns.
Bodies(m) ==
  {id \in TaskIds :
     \E i \in 1..Len(m.tasks[id].stack) :
       m.tasks[id].stack[i].fn = "checkpoint" /\ m.tasks[id].stack[i].pc > 0}

\* C27: at most one checkpoint body executes at any time, and a
\* checkpoint() call that arrives while a body executes returns without
\* touching the WAL or a table file, also when close() was called.
C27_OneCheckpointBody ==
  [][/\ Cardinality(Bodies(Machine')) <= 1
     /\ lastOp'.kind = "checkpointCall" /\ Bodies(Machine) # {} =>
          /\ Bodies(Machine') = Bodies(Machine) /\ ioQ' = ioQ
          /\ walFile' = walFile /\ walBuffer' = walBuffer /\ files' = files]_vars

\* ---------------------------------------------------------------- C28
\* The build that keeps the marker file, with forced checkpoints whose
\* truncation of the WAL file may fail.
OpsRetry == 4
FailTruncate == Arm({<<"failTruncate">>})
InitRetry ==
  /\ Holds(WithMarker(FreshEngine(defaultCacheLimit, 1, <<>>, [t \in Tables |-> NoFile])))
  /\ phase = "new" /\ epoch = "first" /\ restarts = 0 /\ budget = OpsRetry
  /\ lastOp = NoOp
  /\ expect = [t \in Tables |-> [k \in StoredKeys |-> NoPromise]]
NextRetry == Start \/ WriteValues \/ CheckpointNow \/ FailTruncate
SpecRetry == InitRetry /\ [][NextRetry]_vars

CheckpointFailed == lastOp.kind = "checkpointNow" /\ ~hung /\ result.err

\* C28: a checkpoint that fails after it created the marker file raises
\* its error to the caller, leaves the marker file on disk and the WAL as
\* it was, and releases the in-progress flag; a checkpoint called after it
\* runs: it persists the tables and truncates the WAL.
C28_FailedCheckpointRetryable ==
  [][/\ CheckpointFailed' =>
          markerFile' /\ walFile' = lastOp'.ws /\ ~isCheckpointing'
     /\ (CheckpointFailed /\ lastOp'.kind = "checkpointNow" /\ faults = <<>> /\ ~hung')
          => ~result'.err /\ walFile' = <<>>]_vars

\* ---------------------------------------------------------------- C29
\* Calls of three operations on two tables, the second with or without an
\* expected version, in slices of one, two or three; on an engine whose
\* calls are awaited one by one and on one whose file operations stay
\* outstanding.
OpsSlices == 2
Limits == {1, 2, 3}
ThreeWrites ==
  {<<WriteOp("A", "k1", "v1", Null, 0), WriteOp("B", "k1", "v1", ev, 0),
     WriteOp("A", "k2", "v2", Null, 0)>> : ev \in {Null, 1}}
WriteThree == WriteSliced(ThreeWrites, Limits)
WriteThreeCall == WriteSlicedCall(ThreeWrites, Limits)
InitSlices ==
  /\ \E h \in BOOLEAN :
       Holds([FreshEngine(defaultCacheLimit, 1, <<>>, [t \in Tables |-> NoFile])
                EXCEPT !.hold = h])
  /\ phase = "new" /\ epoch = "first" /\ restarts = 0 /\ budget = OpsSlices
  /\ lastOp = NoOp
  /\ expect = [t \in Tables |-> [k \in StoredKeys |-> NoPromise]]
NextSlices == Start \/ WriteThree \/ WriteThreeCall \/ FileDone
SpecSlices == InitSlices /\ [][NextSlices]_vars

\* The writeItem calls that have started and not finished, and the slice
\* of the write call each belongs to.
UnderWay(m) ==
  {id \in TaskIds : m.tasks[id].stack # <<>> /\ m.tasks[id].stack[1].fn = "writeItem"}
SliceOf(pos, limit) == (pos - 1) \div limit
SliceIn(m, id) ==
  SliceOf(m.tasks[id].stack[1].aux,
          ConcurrencyLimit(m.tasks[m.tasks[id].parent].stack[1]))
\* The entries for the key of operation w in a log.
Logged(wal, w) ==
  Len(SelectSeq(wal, LAMBDA e : e.op = "W" /\ e.t = w.t /\ e.k = w.k))
\* The first operation of a call that names an expected version.
Versioned(ws) ==
  CHOOSE j \in 1..Len(ws) : ws[j].ev # Null /\ \A i \in 1..(j - 1) : ws[i].ev = Null

WriteCall(ts, ks, vals) ==
  /\ Held /\ budget > 0 /\ FreeTasks(Machine) # {}
  /\ \E t \in ts, k \in ks, val \in vals :
       \E m \in {Fire(Machine, [Frame("write") EXCEPT
                                  !.ws = <<WriteOp(t, k, val, Null, 0)>>])} :
         /\ Install(m)
         /\ lastOp' = [Called("writeCall") EXCEPT !.t = t, !.k = k, !.val = val,
                                                  !.exp = lastOp.exp]
  /\ budget' = budget - 1 /\ UNCHANGED <<phase, epoch, restarts, expect>>

\* `db.flush()`, not awaited.
FlushCall ==
  /\ Held /\ budget > 0 /\ FreeTasks(Machine) # {}
  /\ \E m \in {Fire(Machine, Frame("flush"))} : Install(m)
  /\ lastOp' = [Called("flushCall") EXCEPT !.exp = lastOp.exp]
  /\ budget' = budget - 1 /\ UNCHANGED <<phase, epoch, restarts, expect>>

\* Writes of two values to one key and flushes that overlap; a table
\* write may fail.
OpsPending == 3
WriteValueCall == WriteCall({"A"}, {"k1"}, {"v1", "v2"})
WriteDone == Done({"ok", "failWrite"})
InitPending == InitHeld(OpsPending)
NextPending == Start \/ WriteValueCall \/ FlushCall \/ WriteDone
SpecPending == InitPending /\ [][NextPending]_vars

\* The entries of the pending write buffer for one key.
Pending(buffer, t, k) == Len(SelectSeq(buffer, LAMBDA e : e.t = t /\ e.k = k))

\* C30: flushWrites removes only entries it snapshotted and wrote: when
\* the last pending entry of a key leaves the write buffer, the table file
\* holds the value the key has in memory; and a flushWrites whose table
\* write failed leaves the entries of the buffer in place.
C30_OnlyWrittenEntriesRemoved ==
  [][/\ \A t \in Tables, k \in Keys :
          (Pending(writeBuffer, t, k) > 0 /\ Pending(writeBuffer', t, k) = 0 /\ ~hung') =>
            /\ files'[t].exists /\ files'[t].recs[k].has
            /\ files'[t].recs[k].value = data'[t].items[k].value
     /\ (lastOp'.kind = "done" /\ lastOp'.val = "failWrite") =>
          Extends(writeBuffer', writeBuffer)]_vars

\* ---------------------------------------------------------------- C31
\* Writes of one table that are not awaited, and the file system
\* completing their operations oldest first.
OpsLogged == 3
WriteKeyCall == WriteCall({"A"}, Keys, {"v1"})
InitLogged == InitHeld(OpsLogged)
NextLogged == Start \/ WriteKeyCall \/ FileDone
SpecLogged == InitLogged /\ [][NextLogged]_vars

\* The W entry of the first write of key k of table t is in wal.
FirstEntry(wal, t, k) ==
  \E i \in 1..Len(wal) : wal[i].op = "W" /\ wal[i].t = t /\ wal[i].k = k /\ wal[i].ver = 1

\* C31: the log is written ahead of the table files: no table file holds
\* the record of a write whose W entry is in the WAL buffer, or in an
\* append that has not completed, and not in the WAL file.  Stated for the
\* keys that were written once: the record in the file is that of the one
\* write.
C31_LogAheadOfTableFile ==
  \A t \in Tables, k \in Keys :
     (/\ data[t].res /\ data[t].items[k].has /\ data[t].items[k].v = 1
      /\ files[t].exists /\ files[t].recs[k].has
      /\ FirstEntry(walBuffer \o InFlight(ioQ), t, k))
     => FirstEntry(walFile, t, k)

\* ---------------------------------------------------------------- C32
\* Two tables and a cache that holds one: writes and deletes of one key of
\* each table, gets, and time passing between the calls.
OpsReload == 3
InitReload == InitWith(evictingCacheLimit, OpsReload)
NextReload == Start \/ WritePlain \/ DeletePlain \/ GetOne \/ Tick
SpecReload == InitReload /\ [][NextReload]_vars

\* The engine after `await db.get({tableName: t, key: k})` on engine m.
GetCall(m, t, k) == Invoke(m, [Frame("get") EXCEPT !.t = t, !.k = k, !.op = "key"])
OtherTable(t) == CHOOSE u \in Tables : u # t

\* C32: evicting a table and activating it again is transparent: whatever
\* writes and deletes came before, a get of a key of a table in memory, a
\* get on the other table that evicts the first, and the same get again
\* give the same result twice.
C32_EvictionIsTransparent ==
  (phase = "up" /\ ~hung) =>
    \A t \in Tables, k \in {"k1"} :
      \A m1 \in {GetCall(Machine, t, k)} :
        \A m2 \in {GetCall(m1, OtherTable(t), "k1")} :
          \A m3 \in {GetCall(m2, t, k)} :
            (/\ ~m1.hung /\ ~m2.hung /\ ~m3.hung
             /\ m1.data[t].res /\ ~m2.data[t].res)
            => /\ m3.result.b = m1.result.b
               /\ m3.result.value = m1.result.value

\* ---------------------------------------------------------------- C33
\* The tables that were in memory before a step and are not after it.
Dropped == {u \in Tables : data[u].res /\ ~data'[u].res}

\* C33: when a get, write or delete activates a table that is not in
\* memory while the cache is full, the call drops exactly (resident count
\* - limit) tables, none of them accessed later than a table that stays,
\* and the activated table is in memory afterwards.
C33_EvictsLeastRecentOthers ==
  [][(/\ lastOp'.kind \in {"key", "write", "delete"} /\ phase = "up" /\ ~hung'
      /\ ~data[lastOp'.t].res /\ ResidentCount(Machine) = cacheLimit
      /\ Len(walFile') <= maxWalSizeBeforeCheckpoint /\ Extends(walFile', walFile))
     => /\ data'[lastOp'.t].res
        /\ Cardinality(Dropped) = ResidentCount(Machine) + 1 - cacheLimit
        /\ \A u \in Dropped, w \in Tables \ Dropped :
             data[w].res => AccessTime(tracker, u) <= AccessTime(tracker, w)]_vars

\* ---------------------------------------------------------------- C34
\* Writes and deletes of one key (a delete leaves its D entry in the WAL
\* buffer), flush(), the WAL timer, and close().  The timer is an interval of the
\* event loop: as long as it is set and the buffer holds entries, it fires,
\* whether or not the caller makes another call.
OpsInterval == 3
InitInterval == InitWith(defaultCacheLimit, OpsInterval)
NextInterval == Start \/ WritePlain \/ DeletePlain \/ Flush \/ WalTimer \/ Close
SpecInterval == InitInterval /\ [][NextInterval]_vars
SpecIntervalFair == SpecInterval /\ WF_vars(WalTimer)

\* C34: an entry in the WAL buffer of an engine that has not been closed
\* is eventually written to the WAL file by the WAL timer, without any
\* further call: the buffer holds entries only until the timer has fired,
\* and what the timer takes from the buffer it appends to the file.
C34_TimerFlushesBuffer ==
  /\ (phase = "up" /\ walBuffer # <<>>) ~> (walBuffer = <<>>)
  /\ [][lastOp'.kind = "walTimer" =>
          /\ walBuffer' = <<>>
          /\ \/ walFile' = walFile \o walBuffer
             \/ Len(walFile \o walBuffer) > maxWalSizeBeforeCheckpoint]_vars
\* The timer has written the D entry of a delete that no call had flushed.
C34_TimerWroteDelete ==
  /\ lastOp.kind = "walTimer" /\ walBuffer = <<>>
  /\ walFile # <<>> /\ walFile[Len(walFile)].op = "D"

\* ---------------------------------------------------------------- C35
\* The events of one name for one key that the last call emitted.
Emitted(evs, name, t, k) ==
  Cardinality({i \in 1..Len(evs) : evs[i] = Event(name, t, k)})

\* C35: a call emits item.written exactly once for the key it wrote and
\* item.deleted exactly once for the key it deleted, and no such event for
\* any other key or in any other call, whatever flushes, evictions and WAL
\* replays the call sets off.
C35_OneEventPerMutation ==
  [][(lastOp'.kind \in {"write", "delete", "key"} /\ phase = "up" /\ ~hung') =>
       \A t \in Tables, k \in Keys :
          /\ Emitted(events', "item.written", t, k) =
               IF lastOp'.kind = "write" /\ result'.b /\ lastOp'.t = t /\ lastOp'.k = k
               THEN 1 ELSE 0
          /\ Emitted(events', "item.deleted", t, k) =
               IF lastOp'.kind = "delete" /\ result'.b /\ lastOp'.t = t /\ lastOp'.k = k
               THEN 1 ELSE 0]_vars

\* ---------------------------------------------------------------- C36
\* Query.evaluateFilter over flat records of two numeric fields.  A filter
\* is {$or?: FilterQuery[], field?: condition}; a condition is a plain
\* value or {operator, value}.  The inputs drawn below hold numbers only,
\* so the array and string operators, dotted field names and nested filter
\* objects of the source are never reached.
Fields == {"role", "age"}
MaxField == 1
Records == [Fields -> 0..MaxField]
Absent == [kind |-> "absent", operator |-> "", value |-> 0]
Plain(v) == [kind |-> "plain", operator |-> "", value |-> v]
Cond(op, v) == [kind |-> "cond", operator |-> op, value |-> v]

\* Query.evaluateCondition
evaluateCondition(value, condition) ==
  IF condition.kind = "plain" THEN value = condition.value
  ELSE CASE condition.operator = "eq" -> value = condition.value
         [] condition.operator = "neq" -> value # condition.value
         [] condition.operator = "gt" -> value > condition.value
         [] condition.operator = "gte" -> value >= condition.value
         [] condition.operator = "lt" -> value < condition.value
         [] condition.operator = "lte" -> value <= condition.value
         [] OTHER -> FALSE

FilterQuery(hasOr, or, conds) == [hasOr |-> hasOr, or |-> or, conds |-> conds]

\* Query.evaluateFilter: with `$or` in the filter the result is that of
\* `$or.some(...)`; otherwise every field condition must hold.
RECURSIVE evaluateFilter(_, _)
evaluateFilter(record, filter) ==
  IF filter.hasOr
  THEN \E i \in 1..Len(filter.or) : evaluateFilter(record, filter.or[i])
  ELSE \A field \in Fields :
          \/ filter.conds[field].kind = "absent"
          \/ evaluateCondition(record[field], filter.conds[field])

\* The filters of the callers: up to two `$or` branches of one field
\* condition each, and a condition or none for each sibling field.
Conditions == {Plain(0), Plain(1), Cond("gte", 1), Cond("lt", 1), Cond("neq", 0)}
Branches ==
  {FilterQuery(FALSE, <<>>, [f \in Fields |-> IF f = g THEN c ELSE Absent])
     : g \in Fields, c \in {Plain(0), Plain(1), Cond("gt", 0), Cond("lte", 0), Cond("eq", 1)}}
Siblings == [Fields -> {Absent} \cup Conditions]
Filters ==
  {FilterQuery(FALSE, <<>>, c) : c \in Siblings}
    \cup {FilterQuery(TRUE, or, c) : or \in {<<>>} \cup {<<x>> : x \in Branches}
                                            \cup {<<x, y>> : x \in {FilterQuery(FALSE, <<>>,
                                                     [f \in Fields |-> IF f = "role"
                                                                       THEN Plain(0) ELSE Absent])},
                                                             y \in Branches},
                                     c \in Siblings}

\* A caller holds a record and a filter; Evaluate applies the filter.
InitFilter ==
  /\ Holds(FreshEngine(defaultCacheLimit, 1, <<>>, [t \in Tables |-> NoFile]))
  /\ phase = "new" /\ epoch = "first" /\ restarts = 0 /\ budget = 1
  /\ \E record \in Records, filter \in Filters :
        lastOp = Op("filter", NoTableName, "k1", NoValue, Null, 0,
                    <<[record |-> record, filter |-> filter]>>)
  /\ expect = [t \in Tables |-> [k \in StoredKeys |-> NoPromise]]
Evaluate ==
  /\ lastOp.kind = "filter"
  /\ result' = RetBool(evaluateFilter(lastOp.ws[1].record, lastOp.ws[1].filter))
  /\ lastOp' = [lastOp EXCEPT !.kind = "evaluateFilter"]
  /\ UNCHANGED <<data, activeTable, writeBuffer, walBuffer, cursor, tracker,
                 cacheLimit, isCheckpointing, lastCheckpointTime, timers,
                 walFile, files, now, tasks, cur, startQ, microQ, immQ, ioQ,
                 events, hung, faults, hold, markerFile, usesMarker,
                 atomicWrites, torn, temps, loaded,
                 phase, epoch, restarts, budget, expect>>
NextFilter == Evaluate
SpecFilter == InitFilter /\ [][NextFilter]_vars

\* C36: a record matches a filter with `$or` and sibling field conditions
\* exactly when it matches at least one `$or` branch and every sibling
\* condition.
C36_OrAndSiblings ==
  (lastOp.kind = "evaluateFilter" /\ lastOp.ws[1].filter.hasOr) =>
     \A q \in {lastOp.ws[1]} :
        result.b <=>
          /\ \E i \in 1..Len(q.filter.or) : evaluateFilter(q.record, q.filter.or[i])
          /\ \A field \in Fields :
                \/ q.filter.conds[field].kind = "absent"
                \/ evaluateCondition(q.record[field], q.filter.conds[field])

\* ---------------------------------------------------------------- C37
\* Table.get with options over a table of numbers.  The table is the
\* sequence of its values in the iteration order of the Map; the filter
\* and the comparator are functions of the caller.
defaultQueryLimit == 50
MaxNumber == 3
Numbers == 1..MaxNumber
Passes(filter, v) ==
  CASE filter = "none" -> TRUE
    [] filter = "atLeast2" -> v >= 2
    [] OTHER -> v # 2
\* comparator(a, b) < 0: a sorts before b
Before(sort, a, b) == IF sort = "ascending" THEN a < b ELSE b < a

\* Query.query: the values that pass the filter, in iteration order; the
\* scan stops when `limit` of them are collected (limit = 50 when the
\* argument is undefined).
RECURSIVE scan(_, _, _, _)
scan(entries, filter, limit, records) ==
  IF entries = <<>> THEN records
  ELSE IF ~Passes(filter, Head(entries)) THEN scan(Tail(entries), filter, limit, records)
  ELSE IF limit \notin {0, Null} /\ Len(records) + 1 >= limit
       THEN Append(records, Head(entries))
       ELSE scan(Tail(entries), filter, limit, Append(records, Head(entries)))
query(table, filter, limit) ==
  scan(table, filter, IF limit = Undef THEN defaultQueryLimit ELSE limit, <<>>)

\* Array.prototype.sort with a comparator: a stable sort.
RECURSIVE insertWith(_, _, _)
insertWith(sorted, sort, v) ==
  IF sorted = <<>> THEN <<v>>
  ELSE IF Before(sort, v, Head(sorted)) THEN <<v>> \o sorted
  ELSE <<Head(sorted)>> \o insertWith(Tail(sorted), sort, v)
RECURSIVE sortWith(_, _)
sortWith(results, sort) ==
  IF results = <<>> THEN <<>>
  ELSE insertWith(sortWith(SubSeq(results, 1, Len(results) - 1), sort), sort,
              results[Len(results)])
\* Array.prototype.slice(start, end) for start >= 0
Slice(results, from, to) ==
  SubSeq(results, from + 1, IF to = Undef \/ to > Len(results) THEN Len(results) ELSE to)

GetOptions(filter, sort, offset, limit) ==
  [filter |-> filter, sort |-> sort, offset |-> offset, limit |-> limit]
\* Table.get, the part after `const table = this.getTable(tableName)`.
getWithOptions(table, options) ==
  LET found == query(table, options.filter, options.limit)
      results == IF options.sort # "none" THEN sortWith(found, options.sort) ELSE found
  IN  IF options.offset \notin {Undef, Null} \/ options.limit \notin {Undef, Null}
      THEN Slice(results,
                 IF options.offset \in {Undef, Null, 0} THEN 0 ELSE options.offset,
                 IF options.limit \in {Undef, Null, 0} THEN Undef
                 ELSE (IF options.offset \in {Undef, Null, 0} THEN 0 ELSE options.offset)
                        + options.limit)
      ELSE results

\* The tables of the callers: up to three distinct numbers in any order.
NumberTables ==
  {<<>>} \cup {<<a>> : a \in Numbers}
         \cup {q \in [1..2 -> Numbers] : q[1] # q[2]}
         \cup {q \in [1..3 -> Numbers] : Cardinality({q[i] : i \in 1..3}) = 3}
Options ==
  {GetOptions(filter, sort, offset, limit) :
     filter \in {"none", "atLeast2", "not2"}, sort \in {"none", "ascending", "descending"},
     offset \in {Undef, 0, 1}, limit \in {Undef, 1, 2}}

InitQuery ==
  /\ Holds(FreshEngine(defaultCacheLimit, 1, <<>>, [t \in Tables |-> NoFile]))
  /\ phase = "new" /\ epoch = "first" /\ restarts = 0 /\ budget = 1
  /\ \E table \in NumberTables, options \in Options :
        lastOp = Op("options", NoTableName, "k1", NoValue, Null, 0,
                    <<[table |-> table, options |-> options]>>)
  /\ expect = [t \in Tables |-> [k \in StoredKeys |-> NoPromise]]
GetWithOptions ==
  /\ lastOp.kind = "options"
  /\ result' = [RetVoid EXCEPT !.ops = getWithOptions(lastOp.ws[1].table,
                                                      lastOp.ws[1].options)]
  /\ lastOp' = [lastOp EXCEPT !.kind = "getWithOptions"]
  /\ UNCHANGED <<data, activeTable, writeBuffer, walBuffer, cursor, tracker,
                 cacheLimit, isCheckpointing, lastCheckpointTime, timers,
                 walFile, files, now, tasks, cur, startQ, microQ, immQ, ioQ,
                 events, hung, faults, hold, markerFile, usesMarker,
                 atomicWrites, torn, temps, loaded,
                 phase, epoch, restarts, budget, expect>>
NextQuery == GetWithOptions
SpecQuery == InitQuery /\ [][NextQuery]_vars

\* The values of the table that pass the filter, in iteration order.
Matching(table, filter) == SelectSeq(table, LAMBDA v : Passes(filter, v))

\* C37: get with options returns the slice [offset, offset + limit) of the
\* matches of the filter sorted with the caller's comparator, and all of
\* them from offset on when no limit is given.
C37_SliceOfSortedMatches ==
  lastOp.kind = "getWithOptions" =>
     \A q \in {lastOp.ws[1]} :
        \A all \in {IF q.options.sort = "none" THEN Matching(q.table, q.options.filter)
                    ELSE sortWith(Matching(q.table, q.options.filter), q.options.sort)} :
           \A from \in {IF q.options.offset = Undef THEN 0 ELSE q.options.offset} :
              result.ops = SubSeq(all, from + 1,
                                  IF q.options.limit = Undef \/ from + q.options.limit > Len(all)
                                  THEN Len(all) ELSE from + q.options.limit)

\* ---------------------------------------------------------------- C38
\* Writes of a plain key and of a key with a space, and reads of both.
OpsSpaced == 3
WriteSpaced == Write(Tables, {"k1"} \cup SpacedKeys, {"v1"}, {Null}, {0})
GetSpaced == Get(Tables, {"k1"} \cup SpacedKeys, {"key"})
InitSpaced == InitWith(defaultCacheLimit, OpsSpaced)
NextSpaced == Start \/ WriteSpaced \/ GetSpaced
SpecSpaced == InitSpaced /\ [][NextSpaced]_vars

\* C38: a write of a key that contains a space is rejected with an error;
\* it appends nothing to the WAL and leaves the key as it was in memory.
C38_SpacedKeyRejected ==
  [][(lastOp'.kind = "write" /\ lastOp'.k \in SpacedKeys /\ phase = "up" /\ ~hung') =>
       /\ result'.err
       /\ walFile' = walFile /\ walBuffer' = walBuffer
       /\ data'[lastOp'.t].res =>
            data'[lastOp'.t].items[lastOp'.k].has
              = (data[lastOp'.t].res /\ data[lastOp'.t].items[lastOp'.k].has)]_vars

\* ---------------------------------------------------------------- C39
\* Awaited calls on two tables with room in memory for one: reads, writes,
\* deletes, deleteTable and checkpoints.
OpsActive == 3
InitActive == InitWith(evictingCacheLimit, OpsActive)
NextActive ==
  Start \/ WritePlain \/ DeletePlain \/ GetOne \/ DropTable \/ CheckpointNow
SpecActive == InitActive /\ [][NextActive]_vars

\* C39: between calls activeTable is null or names a table that is in
\* memory.
C39_ActiveTableResident ==
  (phase = "up" /\ ~hung /\ cur = 0) =>
     activeTable = NoTableName \/ data[activeTable].res

\* ---------------------------------------------------------------- C40
\* C40: every call returns: the chain setActiveTable, evictTablesIfNeeded,
\* flushTableToDisk, setActiveTable comes to an end in every state the
\* calls of a workload reach.
C40_SetActiveTableReturns ==
  (phase = "up" /\ lastOp.kind \in {"write", "batch", "key", "delete", "size", "checkpointNow"})
     => ~hung

====
